---------------------------- MODULE Spec2Model ----------------------------
(***************************************************************************)
(* The on-device persistence layer of the finance tracker: the connection  *)
(* manager (init.js), the schema and migration manager (migrations.js),    *)
(* the category, transaction, budget and settings stores, and the startup  *)
(* entry point (index.js).                                                 *)
(*                                                                         *)
(* Strings on which the code works character by character (trim, regular  *)
(* expressions, parseInt, split, lexicographic comparison) are tuples of   *)
(* one-character strings; strings the code only compares for equality are  *)
(* TLA+ strings.  Amounts are whole numbers of cents.                      *)
(***************************************************************************)
EXTENDS Integers, Sequences, FiniteSets, TLC

(***************************************************************************)
(* Bounds of the model.                                                    *)
(***************************************************************************)
MaxCategoryId == 2
MaxTransactionId == 1
MaxBudgetId == 1
MaxClock == 1
MaxLedgerRows == 2
MaxBudgetRows == 2

(***************************************************************************)
(* Characters and strings.                                                 *)
(***************************************************************************)
DigitChars == <<"0","1","2","3","4","5","6","7","8","9">>
Digits == {DigitChars[i] : i \in 1..10}
HexDigits == Digits \cup {"A","B","C","D","E","F","a","b","c","d","e","f"}
Whitespace == {" ", "\t", "\n"}

\* SQL NULL / JS null for a character-tuple column, for a string column and
\* for an integer column (no row id is 0: AUTOINCREMENT ids start at 1, and
\* the services store `x || null`, so a falsy 0 is never stored).
Null == <<"NULL">>
NullStr == "NULL"
NullId == 0

RECURSIVE TrimStart(_)
TrimStart(s) ==
  IF s # <<>> /\ Head(s) \in Whitespace THEN TrimStart(Tail(s)) ELSE s

RECURSIVE TrimEnd(_)
TrimEnd(s) ==
  IF s # <<>> /\ s[Len(s)] \in Whitespace
  THEN TrimEnd(SubSeq(s, 1, Len(s) - 1))
  ELSE s

\* String.prototype.trim
Trim(s) == TrimEnd(TrimStart(s))

DigitVal(c) == CHOOSE i \in 0..9 : DigitChars[i + 1] = c

RECURSIVE LeadingDigits(_)
LeadingDigits(s) ==
  IF s # <<>> /\ Head(s) \in Digits
  THEN <<Head(s)>> \o LeadingDigits(Tail(s))
  ELSE <<>>

RECURSIVE DigitsValue(_)
DigitsValue(d) ==
  IF d = <<>> THEN 0
  ELSE 10 * DigitsValue(SubSeq(d, 1, Len(d) - 1)) + DigitVal(d[Len(d)])

\* parseInt(s, 10): leading whitespace skipped, an optional sign, then the
\* longest run of digits; NaN when there is none.
NaN == [nan |-> TRUE, n |-> 0]
Num(n) == [nan |-> FALSE, n |-> n]
ParseInt(s) ==
  LET t == TrimStart(s)
      signed == t # <<>> /\ Head(t) \in {"+", "-"}
      u == IF signed THEN Tail(t) ELSE t
      d == LeadingDigits(u)
  IN  IF d = <<>> THEN NaN
      ELSE IF signed /\ Head(t) = "-" THEN Num(0 - DigitsValue(d))
      ELSE Num(DigitsValue(d))

RECURSIVE NatToString(_)
NatToString(n) ==
  IF n < 10 THEN <<DigitChars[n + 1]>>
  ELSE NatToString(n \div 10) \o <<DigitChars[(n % 10) + 1]>>

\* Number.prototype.toString / String(number) for an integer
NumberToString(n) ==
  IF n < 0 THEN <<"-">> \o NatToString(0 - n) ELSE NatToString(n)

\* JS values passed where the code accepts any type
JsStr(s) == [t |-> "string", s |-> s, n |-> 0]
JsNum(n) == [t |-> "number", s |-> <<>>, n |-> n]
JsBool(b) == [t |-> "boolean", s |-> <<>>, n |-> IF b THEN 1 ELSE 0]
JsNull == [t |-> "null", s |-> <<>>, n |-> 0]
JsUndefined == [t |-> "undefined", s |-> <<>>, n |-> 0]

\* String(value)
String(v) ==
  CASE v.t = "string" -> v.s
    [] v.t = "number" -> NumberToString(v.n)
    [] v.t = "boolean" -> IF v.n = 1 THEN <<"t","r","u","e">>
                          ELSE <<"f","a","l","s","e">>
    [] v.t = "null" -> <<"n","u","l","l">>
    [] OTHER -> <<"u","n","d","e","f","i","n","e","d">>

\* /^\d{4}-\d{2}-\d{2}$/.test(s)
IsISODate(s) ==
  /\ Len(s) = 10
  /\ \A i \in {1, 2, 3, 4, 6, 7, 9, 10} : s[i] \in Digits
  /\ s[5] = "-"
  /\ s[8] = "-"

\* /^#[0-9A-F]{6}$/i.test(s)
IsHexColor(s) ==
  /\ Len(s) = 7
  /\ s[1] = "#"
  /\ \A i \in 2..7 : s[i] \in HexDigits

\* Code units of the characters that occur in dates and timestamps
CharCode(c) ==
  CASE c \in Digits -> 48 + DigitVal(c)
    [] c = "-" -> 45
    [] c = "T" -> 84
    [] c = "Z" -> 90
    [] c = ":" -> 58
    [] OTHER -> 0

\* a < b for strings: by code unit, a proper prefix first (JS `<`, and
\* SQLite's BINARY collation on TEXT)
RECURSIVE StrLess(_, _)
StrLess(a, b) ==
  IF b = <<>> THEN FALSE
  ELSE IF a = <<>> THEN TRUE
  ELSE IF Head(a) = Head(b) THEN StrLess(Tail(a), Tail(b))
  ELSE CharCode(Head(a)) < CharCode(Head(b))

StrLeq(a, b) == a = b \/ StrLess(a, b)

\* s.split('T')[0]
RECURSIVE BeforeT(_)
BeforeT(s) ==
  IF s = <<>> \/ Head(s) = "T" THEN <<>>
  ELSE <<Head(s)>> \o BeforeT(Tail(s))

(***************************************************************************)
(* State.                                                                  *)
(***************************************************************************)
VARIABLES
  db,            \* init.js `db`: 0 (null) or the cached handle
  opens,         \* underlying SQLite.openDatabase calls since the last close
  fk,            \* whether the engine enforces the declared FOREIGN KEYs
  now,           \* the wall clock, in ticks
  tables,        \* tables of the store file
  indexes,       \* indexes of the store file
  categories,    \* rows of categories
  transactions,  \* rows of transactions
  budgets,       \* rows of budgets
  settings,      \* rows of settings: key -> [value, updated_at]
  seq,           \* sqlite_sequence: last AUTOINCREMENT id per table
  last,          \* the last call: the exported function, its outcome, the
                 \* statements it executed, whether it opened the store
  conn,          \* the connection calls in flight, each at one of its
                 \* awaits, and the handles the driver has handed out
  calls          \* a deleteCategory and a createBudget call in flight,
                 \* each at one of its awaits

vars == <<db, opens, fk, now, tables, indexes, categories, transactions,
          budgets, settings, seq, last, conn, calls>>

NoHandle == 0
DATABASE_VERSION == 1

TableNames == {"categories", "transactions", "budgets", "settings"}
IndexTable ==
  [i \in {"idx_transactions_date", "idx_transactions_category",
          "idx_transactions_type"} |-> "transactions"]
  @@ [i \in {"idx_budgets_category"} |-> "budgets"]
SeqZero == [t \in {"categories", "transactions", "budgets"} |-> 0]
EmptySettings == [k \in {} |-> 0]

\* new Date().toISOString(): the model's clock ticks once a day
ISODay(d) == <<"2","0","2","4","-","0","1","-","1", DigitChars[d + 1]>>
NowISO == ISODay(now) \o <<"T","0","0","Z">>
\* new Date().toISOString().split('T')[0]
Today == BeforeT(NowISO)

\* The connection and the store as one value, with the statements executed
\* so far by the running call.
World ==
  [db |-> db, opens |-> opens, tables |-> tables, indexes |-> indexes,
   categories |-> categories, transactions |-> transactions,
   budgets |-> budgets, settings |-> settings, seq |-> seq, log |-> <<>>,
   failures |-> <<>>]

NoError == [msg |-> "", id |-> 0]
Err(msg, id) == [msg |-> msg, id |-> id]
NoRet == [none |-> TRUE]

\* outcome of an async function: resolved with ret, or rejected with err
Resolve(w, ret) == [w |-> w, ok |-> TRUE, err |-> NoError, ret |-> ret]
Reject(w, err) == [w |-> w, ok |-> FALSE, err |-> err, ret |-> NoRet]

(***************************************************************************)
(* Connection manager (init.js).                                           *)
(***************************************************************************)
\* openDatabase without its test of the cached handle, to show the
\* connection properties depend on it
openDatabase_always(w) ==
  [w EXCEPT !.opens = w.opens + 1, !.db = w.opens + 1]

openDatabase(w) ==
  IF w.db # NoHandle THEN w
  ELSE [w EXCEPT !.opens = w.opens + 1, !.db = w.opens + 1]

closeDatabase(w) ==
  IF w.db # NoHandle THEN [w EXCEPT !.db = NoHandle, !.opens = 0] ELSE w

getDatabase(w) == w.db

(***************************************************************************)
(* The SQL engine: one operator per statement the layer issues.            *)
(***************************************************************************)
SqlOk(w, rows, insertId) ==
  [ok |-> TRUE, err |-> NoError, w |-> w, rows |-> rows, insertId |-> insertId]
SqlErr(w, msg) ==
  [ok |-> FALSE, err |-> Err(msg, 0), w |-> w, rows |-> {}, insertId |-> 0]

\* CREATE TABLE without IF NOT EXISTS, failing on a table that exists, to
\* show the re-run of the migrations depends on the clause
CreateTable_noIfNotExists(w, t) ==
  IF t \in w.tables THEN SqlErr(w, "table already exists")
  ELSE SqlOk([w EXCEPT !.tables = @ \cup {t}], {}, 0)

CreateTable(w, t) == SqlOk([w EXCEPT !.tables = @ \cup {t}], {}, 0)

CreateIndex(w, i) ==
  IF IndexTable[i] \notin w.tables THEN SqlErr(w, "no such table")
  ELSE SqlOk([w EXCEPT !.indexes = @ \cup {i}], {}, 0)

\* DROP TABLE IF EXISTS: the table's rows, indexes and sequence go with it
DropTable(w, t) ==
  LET w1 == [w EXCEPT !.tables = @ \ {t},
                      !.indexes = {i \in @ : IndexTable[i] # t}]
  IN  CASE t = "categories" ->
             SqlOk([w1 EXCEPT !.categories = {}, !.seq.categories = 0], {}, 0)
        [] t = "transactions" ->
             SqlOk([w1 EXCEPT !.transactions = {}, !.seq.transactions = 0], {}, 0)
        [] t = "budgets" ->
             SqlOk([w1 EXCEPT !.budgets = {}, !.seq.budgets = 0], {}, 0)
        [] OTHER ->
             SqlOk([w1 EXCEPT !.settings = EmptySettings], {}, 0)

SelectSetting(w, key) ==
  IF "settings" \notin w.tables THEN SqlErr(w, "no such table")
  ELSE SqlOk(w, IF key \in DOMAIN w.settings
                THEN {[value |-> w.settings[key].value]} ELSE {}, 0)

\* a plain INSERT INTO settings, failing on a key that exists, to show the
\* settings-map properties depend on OR REPLACE
ReplaceSetting_insertOnly(w, p) ==
  IF "settings" \notin w.tables THEN SqlErr(w, "no such table")
  ELSE IF p.key \in DOMAIN w.settings
  THEN SqlErr(w, "UNIQUE constraint failed")
  ELSE SqlOk([w EXCEPT !.settings =
                (p.key :> [value |-> p.value, updated_at |-> p.updated_at])
                @@ w.settings], {}, 0)

\* INSERT OR REPLACE INTO settings
ReplaceSetting(w, p) ==
  IF "settings" \notin w.tables THEN SqlErr(w, "no such table")
  ELSE SqlOk([w EXCEPT !.settings =
                (p.key :> [value |-> p.value, updated_at |-> p.updated_at])
                @@ w.settings], {}, 0)

DeleteSettingRow(w, key) ==
  IF "settings" \notin w.tables THEN SqlErr(w, "no such table")
  ELSE SqlOk([w EXCEPT !.settings =
                [k \in (DOMAIN w.settings) \ {key} |-> w.settings[k]]], {}, 0)

\* INSERT INTO categories: name is UNIQUE, id is AUTOINCREMENT
InsertCategory(w, p) ==
  IF "categories" \notin w.tables THEN SqlErr(w, "no such table")
  ELSE IF \E c \in w.categories : c.name = p.name
  THEN SqlErr(w, "UNIQUE constraint failed")
  ELSE LET id == w.seq.categories + 1
       IN  SqlOk([w EXCEPT !.categories = @ \cup {[id |-> id] @@ p},
                           !.seq.categories = id], {}, id)

SelectCategory(w, id) ==
  IF "categories" \notin w.tables THEN SqlErr(w, "no such table")
  ELSE SqlOk(w, {c \in w.categories : c.id = id}, 0)

\* UPDATE categories SET name, icon, color WHERE id
UpdateCategoryRow(w, p) ==
  IF "categories" \notin w.tables THEN SqlErr(w, "no such table")
  ELSE IF /\ \E c \in w.categories : c.id = p.id
          /\ \E c \in w.categories : c.id # p.id /\ c.name = p.name
  THEN SqlErr(w, "UNIQUE constraint failed")
  ELSE SqlOk([w EXCEPT !.categories =
                {IF c.id = p.id
                 THEN [c EXCEPT !.name = p.name, !.icon = p.icon,
                                !.color = p.color]
                 ELSE c : c \in w.categories}], {}, 0)

CountTransactionsOfCategory(w, id) ==
  IF "transactions" \notin w.tables THEN SqlErr(w, "no such table")
  ELSE SqlOk(w, {[count |-> Cardinality({t \in w.transactions :
                                           t.category_id = id})]}, 0)

CountBudgetsOfCategory(w, id) ==
  IF "budgets" \notin w.tables THEN SqlErr(w, "no such table")
  ELSE SqlOk(w, {[count |-> Cardinality({b \in w.budgets :
                                           b.category_id = id})]}, 0)

\* a parent key the engine refuses to leave dangling, when it enforces the
\* FOREIGN KEY clauses at all
FkMissingParent(w, category_id) ==
  /\ fk
  /\ category_id # NullId
  /\ ~\E c \in w.categories : c.id = category_id

DeleteCategoryRow(w, id) ==
  IF "categories" \notin w.tables THEN SqlErr(w, "no such table")
  ELSE IF /\ fk
          /\ \E c \in w.categories : c.id = id
          /\ \/ \E t \in w.transactions : t.category_id = id
             \/ \E b \in w.budgets : b.category_id = id
  THEN SqlErr(w, "FOREIGN KEY constraint failed")
  ELSE SqlOk([w EXCEPT !.categories = {c \in @ : c.id # id}], {}, 0)

InsertTransaction(w, p) ==
  IF "transactions" \notin w.tables THEN SqlErr(w, "no such table")
  ELSE IF FkMissingParent(w, p.category_id)
  THEN SqlErr(w, "FOREIGN KEY constraint failed")
  ELSE LET id == w.seq.transactions + 1
       IN  SqlOk([w EXCEPT !.transactions = @ \cup {[id |-> id] @@ p},
                           !.seq.transactions = id], {}, id)

\* the columns a LEFT JOIN / JOIN with categories adds to row r
CategoryColumns(w, r) ==
  IF \E c \in w.categories : c.id = r.category_id
  THEN LET c == CHOOSE c \in w.categories : c.id = r.category_id
       IN  [category_name |-> c.name, category_icon |-> c.icon,
            category_color |-> c.color]
  ELSE [category_name |-> Null, category_icon |-> NullStr,
        category_color |-> Null]

\* SELECT t.*, c.name ... FROM transactions t LEFT JOIN categories c
\* WHERE t.id = ?
SelectTransaction(w, id) ==
  IF {"transactions", "categories"} \subseteq w.tables
  THEN SqlOk(w, {t @@ CategoryColumns(w, t) :
                   t \in {x \in w.transactions : x.id = id}}, 0)
  ELSE SqlErr(w, "no such table")

\* UPDATE transactions without its WHERE id = ?, to show that the other
\* rows are left alone depends on it
UpdateTransactionRow_allRows(w, p) ==
  IF "transactions" \notin w.tables THEN SqlErr(w, "no such table")
  ELSE SqlOk([w EXCEPT !.transactions =
                {[id |-> t.id, created_at |-> t.created_at]
                 @@ [x \in (DOMAIN p) \ {"id"} |-> p[x]] :
                   t \in w.transactions}], {}, 0)

UpdateTransactionRow(w, p) ==
  IF "transactions" \notin w.tables THEN SqlErr(w, "no such table")
  ELSE IF (\E t \in w.transactions : t.id = p.id)
          /\ FkMissingParent(w, p.category_id)
  THEN SqlErr(w, "FOREIGN KEY constraint failed")
  ELSE SqlOk([w EXCEPT !.transactions =
                {IF t.id = p.id
                 THEN [id |-> t.id, created_at |-> t.created_at]
                      @@ [x \in (DOMAIN p) \ {"id"} |-> p[x]]
                 ELSE t : t \in w.transactions}], {}, 0)

DeleteTransactionRow(w, id) ==
  IF "transactions" \notin w.tables THEN SqlErr(w, "no such table")
  ELSE SqlOk([w EXCEPT !.transactions = {t \in @ : t.id # id}], {}, 0)

\* SELECT id FROM categories WHERE id = ?
SelectCategoryId(w, id) ==
  IF "categories" \notin w.tables THEN SqlErr(w, "no such table")
  ELSE SqlOk(w, {[id |-> c.id] : c \in {x \in w.categories : x.id = id}}, 0)

InsertBudget(w, p) ==
  IF "budgets" \notin w.tables THEN SqlErr(w, "no such table")
  ELSE IF FkMissingParent(w, p.category_id)
  THEN SqlErr(w, "FOREIGN KEY constraint failed")
  ELSE LET id == w.seq.budgets + 1
       IN  SqlOk([w EXCEPT !.budgets = @ \cup {[id |-> id] @@ p},
                           !.seq.budgets = id], {}, id)

\* SELECT b.*, c.name ... FROM budgets b JOIN categories c WHERE b.id = ?
SelectBudget(w, id) ==
  IF {"budgets", "categories"} \subseteq w.tables
  THEN SqlOk(w, {b @@ CategoryColumns(w, b) :
                   b \in {x \in w.budgets :
                            /\ x.id = id
                            /\ \E c \in w.categories : c.id = x.category_id}},
             0)
  ELSE SqlErr(w, "no such table")

UpdateBudgetRow(w, p) ==
  IF "budgets" \notin w.tables THEN SqlErr(w, "no such table")
  ELSE IF (\E b \in w.budgets : b.id = p.id)
          /\ FkMissingParent(w, p.category_id)
  THEN SqlErr(w, "FOREIGN KEY constraint failed")
  ELSE SqlOk([w EXCEPT !.budgets =
                {IF b.id = p.id
                 THEN [id |-> b.id, created_at |-> b.created_at]
                      @@ [x \in (DOMAIN p) \ {"id"} |-> p[x]]
                 ELSE b : b \in w.budgets}], {}, 0)

DeleteBudgetRow(w, id) ==
  IF "budgets" \notin w.tables THEN SqlErr(w, "no such table")
  ELSE SqlOk([w EXCEPT !.budgets = {b \in @ : b.id # id}], {}, 0)

RECURSIVE SumAmounts(_)
\* the lists ORDER BY may return for the rows S, precedes being the pairs
\* <<a, b>> of rows the order puts a before b: every arrangement of S in
\* which no row comes after one it precedes; rows the order does not tell
\* apart come in any order
Orderings(S, precedes) ==
  {s \in [1..Cardinality(S) -> S] :
     \A i, j \in 1..Cardinality(S) :
       i < j => s[i] # s[j] /\ <<s[j], s[i]>> \notin precedes}

\* the WHERE of getActiveBudgets with end_date > ? in place of >=, to show
\* the active-budget properties depend on the inclusive bound
SelectActiveBudgets_endExclusive(w, date) ==
  IF {"budgets", "categories"} \subseteq w.tables
  THEN SqlOk(w, {b @@ CategoryColumns(w, b) :
                   b \in {x \in w.budgets :
                            /\ \E c \in w.categories : c.id = x.category_id
                            /\ StrLeq(x.start_date, date)
                            /\ (x.end_date = Null
                                \/ StrLess(date, x.end_date))}},
             0)
  ELSE SqlErr(w, "no such table")

\* SELECT b.*, c.name ... FROM budgets b JOIN categories c
\* WHERE b.start_date <= ? AND (b.end_date IS NULL OR b.end_date >= ?)
SelectActiveBudgets(w, date) ==
  IF {"budgets", "categories"} \subseteq w.tables
  THEN SqlOk(w, {b @@ CategoryColumns(w, b) :
                   b \in {x \in w.budgets :
                            /\ \E c \in w.categories : c.id = x.category_id
                            /\ StrLeq(x.start_date, date)
                            /\ (x.end_date = Null
                                \/ StrLeq(date, x.end_date))}},
             0)
  ELSE SqlErr(w, "no such table")

SumAmounts(rows) ==
  IF rows = {} THEN 0
  ELSE LET r == CHOOSE x \in rows : TRUE
       IN  r.amount + SumAmounts(rows \ {r})

\* the sum of getBudgetProgress without type = 'expense', to show the
\* progress properties depend on the filter
SelectSpent_anyType(w, p) ==
  IF "transactions" \notin w.tables THEN SqlErr(w, "no such table")
  ELSE SqlOk(w, {[spent |-> SumAmounts({t \in w.transactions :
                                          /\ t.category_id = p.category_id
                                          /\ StrLeq(p.from, t.date)
                                          /\ StrLeq(t.date, p.to)})]}, 0)

\* SELECT COALESCE(SUM(amount), 0) as spent FROM transactions WHERE
\* category_id = ? AND type = 'expense' AND date >= ? AND date <= ?
SelectSpent(w, p) ==
  IF "transactions" \notin w.tables THEN SqlErr(w, "no such table")
  ELSE SqlOk(w, {[spent |-> SumAmounts({t \in w.transactions :
                                          /\ t.category_id = p.category_id
                                          /\ t.type = "expense"
                                          /\ StrLeq(p.from, t.date)
                                          /\ StrLeq(t.date, p.to)})]}, 0)

\* WHERE date >= ? AND date <= ?
InWindow(w, from, to) ==
  {t \in w.transactions : StrLeq(from, t.date) /\ StrLeq(t.date, to)}

\* SUM(...) over the selected rows, of which counted have a term other than
\* 0: NULL when no row is selected
SumOrNull(rows, counted) ==
  IF rows = {} THEN JsNull ELSE JsNum(SumAmounts(counted))

\* the summary without its WHERE, to show the summary properties depend on
\* the window
SelectSummary_anyDate(w, p) ==
  IF "transactions" \notin w.tables THEN SqlErr(w, "no such table")
  ELSE LET rows == w.transactions
       IN  SqlOk(w, {[total_income |->
                        SumOrNull(rows, {t \in rows : t.type = "income"}),
                      total_expense |->
                        SumOrNull(rows, {t \in rows : t.type = "expense"}),
                      total_count |-> Cardinality(rows)]}, 0)

\* SELECT SUM(CASE WHEN type = 'income' THEN amount ELSE 0 END) as
\* total_income, SUM(CASE WHEN type = 'expense' THEN amount ELSE 0 END) as
\* total_expense, COUNT(*) as total_count FROM transactions
\* WHERE date >= ? AND date <= ?
SelectSummary(w, p) ==
  IF "transactions" \notin w.tables THEN SqlErr(w, "no such table")
  ELSE LET rows == InWindow(w, p.from, p.to)
       IN  SqlOk(w, {[total_income |->
                        SumOrNull(rows, {t \in rows : t.type = "income"}),
                      total_expense |->
                        SumOrNull(rows, {t \in rows : t.type = "expense"}),
                      total_count |-> Cardinality(rows)]}, 0)

\* the rows of one group without t.type = 'expense', to show the spending
\* properties depend on the filter
ExpensesOf_anyType(w, c, p) ==
  {t \in InWindow(w, p.from, p.to) : t.category_id = c.id}

\* the rows of the group of category c: INNER JOIN categories c ON
\* t.category_id = c.id WHERE t.date >= ? AND t.date <= ? AND
\* t.type = 'expense'
ExpensesOf(w, c, p) ==
  {t \in InWindow(w, p.from, p.to) :
     t.category_id = c.id /\ t.type = "expense"}

\* SELECT c.id, c.name, c.icon, c.color, SUM(t.amount) as total_amount,
\* COUNT(t.id) as transaction_count ... GROUP BY c.id, c.name, c.icon,
\* c.color
SelectSpendingByCategory(w, p) ==
  IF {"transactions", "categories"} \subseteq w.tables
  THEN SqlOk(w, {[id |-> c.id, name |-> c.name, icon |-> c.icon,
                  color |-> c.color,
                  total_amount |-> SumAmounts(ExpensesOf(w, c, p)),
                  transaction_count |-> Cardinality(ExpensesOf(w, c, p))] :
                   c \in {x \in w.categories : ExpensesOf(w, x, p) # {}}},
             0)
  ELSE SqlErr(w, "no such table")

\* ORDER BY t.date DESC, t.created_at DESC
MostRecentFirst(S) ==
  {p \in S \X S : \/ StrLess(p[2].date, p[1].date)
                  \/ /\ p[1].date = p[2].date
                     /\ StrLess(p[2].created_at, p[1].created_at)}

\* LIMIT limit OFFSET offset applied to the list s
Page(s, limit, offset) ==
  SubSeq(s, offset + 1,
         IF offset + limit < Len(s) THEN offset + limit ELSE Len(s))

\* the WHERE 1=1 of getAllTransactions with the conditions of p.clauses
Matching(w, p) ==
  {t \in w.transactions :
     /\ "startDate" \in p.clauses => StrLeq(p.startDate, t.date)
     /\ "endDate" \in p.clauses => StrLeq(t.date, p.endDate)
     /\ "category_id" \in p.clauses => t.category_id = p.category_id
     /\ "type" \in p.clauses => t.type = p.type}

\* SELECT t.*, c.name ... FROM transactions t LEFT JOIN categories c
\* WHERE 1=1 [AND ...] ORDER BY t.date DESC, t.created_at DESC [LIMIT ?]
\* [OFFSET ?], the bracketed parts being those of p.clauses.  The grammar
\* has OFFSET only after LIMIT.  rows: the lists the statement may return
SelectTransactions(w, p) ==
  IF "OFFSET" \in p.clauses /\ "LIMIT" \notin p.clauses
  THEN SqlErr(w, "near \"OFFSET\": syntax error")
  ELSE IF {"transactions", "categories"} \subseteq w.tables
  THEN LET S == {t @@ CategoryColumns(w, t) : t \in Matching(w, p)}
           offset == IF "OFFSET" \in p.clauses THEN p.offset ELSE 0
       IN  SqlOk(w, {IF "LIMIT" \in p.clauses THEN Page(s, p.limit, offset)
                     ELSE s : s \in Orderings(S, MostRecentFirst(S))}, 0)
  ELSE SqlErr(w, "no such table")

Engine(w, q, p) ==
  CASE q = "CREATE TABLE" -> CreateTable(w, p)
    [] q = "CREATE INDEX" -> CreateIndex(w, p)
    [] q = "DROP TABLE" -> DropTable(w, p)
    [] q = "SELECT value FROM settings" -> SelectSetting(w, p)
    [] q = "INSERT OR REPLACE INTO settings" -> ReplaceSetting(w, p)
    [] q = "DELETE FROM settings" -> DeleteSettingRow(w, p)
    [] q = "INSERT INTO categories" -> InsertCategory(w, p)
    [] q = "SELECT * FROM categories" -> SelectCategory(w, p)
    [] q = "UPDATE categories" -> UpdateCategoryRow(w, p)
    [] q = "SELECT COUNT(*) FROM transactions" ->
         CountTransactionsOfCategory(w, p)
    [] q = "SELECT COUNT(*) FROM budgets" -> CountBudgetsOfCategory(w, p)
    [] q = "DELETE FROM categories" -> DeleteCategoryRow(w, p)
    [] q = "INSERT INTO transactions" -> InsertTransaction(w, p)
    [] q = "SELECT FROM transactions LEFT JOIN categories" ->
         SelectTransaction(w, p)
    [] q = "UPDATE transactions" -> UpdateTransactionRow(w, p)
    [] q = "DELETE FROM transactions" -> DeleteTransactionRow(w, p)
    [] q = "SELECT id FROM categories" -> SelectCategoryId(w, p)
    [] q = "INSERT INTO budgets" -> InsertBudget(w, p)
    [] q = "SELECT FROM budgets JOIN categories" -> SelectBudget(w, p)
    [] q = "SELECT FROM budgets JOIN categories WHERE active" ->
         SelectActiveBudgets(w, p)
    [] q = "UPDATE budgets" -> UpdateBudgetRow(w, p)
    [] q = "DELETE FROM budgets" -> DeleteBudgetRow(w, p)
    [] q = "SELECT SUM(amount) FROM transactions" -> SelectSpent(w, p)
    [] q = "SELECT SUM(CASE) FROM transactions" -> SelectSummary(w, p)
    [] q = "SELECT SUM(t.amount) FROM transactions JOIN categories" ->
         SelectSpendingByCategory(w, p)
    [] q = "SELECT FROM transactions LEFT JOIN categories WHERE 1=1" ->
         SelectTransactions(w, p)

\* the statement q ended as r: when it failed, the error thrown to the
\* caller's catch is noted, with the key read when q reads a setting
Thrown(r, q, p) ==
  IF r.ok THEN r
  ELSE [r EXCEPT !.w.failures =
          Append(@, [q |-> q, msg |-> r.err.msg,
                     key |-> IF q = "SELECT value FROM settings" THEN p
                             ELSE <<>>])]

\* executeSql on the cached handle only, failing when there is none, to
\* show the lazy-open property depends on the call of openDatabase
executeSql_cachedOnly(w, q, p) ==
  IF w.db = NoHandle
  THEN SqlErr([w EXCEPT !.log = Append(@, q)], "database is not open")
  ELSE Engine([w EXCEPT !.log = Append(@, q)], q, p)

\* executeSql: takes the handle from openDatabase(), which opens lazily,
\* then runs the one statement on it
executeSql(w, q, p) ==
  LET w1 == openDatabase(w)
  IN  Thrown(Engine([w1 EXCEPT !.log = Append(@, q)], q, p), q, p)

\* deleteDatabase: close, then remove the store file
deleteDatabase(w) ==
  [closeDatabase(w) EXCEPT
     !.tables = {}, !.indexes = {}, !.categories = {}, !.transactions = {},
     !.budgets = {}, !.settings = EmptySettings, !.seq = SeqZero]


\* a chain of awaited statements: stops at the first that fails
RECURSIVE RunAll(_, _)
RunAll(w, ss) ==
  IF ss = <<>> THEN [ok |-> TRUE, err |-> NoError, w |-> w]
  ELSE LET r == executeSql(w, Head(ss).q, Head(ss).p)
       IN  IF r.ok THEN RunAll(r.w, Tail(ss))
           ELSE [ok |-> FALSE, err |-> r.err, w |-> r.w]

\* the outcome of a getById whose SELECT ended as r: result.rows.length === 0
\* ? null : result.rows.item(0)
FirstRow(r) ==
  IF ~r.ok THEN Reject(r.w, r.err)
  ELSE IF r.rows = {} THEN Resolve(r.w, [found |-> FALSE])
  ELSE Resolve(r.w, [found |-> TRUE] @@ (CHOOSE x \in r.rows : TRUE))

(***************************************************************************)
(* Schema and migration manager (migrations.js).                           *)
(***************************************************************************)
DbVersionKey == <<"d","b","_","v","e","r","s","i","o","n">>

createTables(w) ==
  RunAll(w, <<[q |-> "CREATE TABLE", p |-> "categories"],
              [q |-> "CREATE TABLE", p |-> "transactions"],
              [q |-> "CREATE TABLE", p |-> "budgets"],
              [q |-> "CREATE TABLE", p |-> "settings"]>>)

createIndexes(w) ==
  RunAll(w, <<[q |-> "CREATE INDEX", p |-> "idx_transactions_date"],
              [q |-> "CREATE INDEX", p |-> "idx_transactions_category"],
              [q |-> "CREATE INDEX", p |-> "idx_transactions_type"],
              [q |-> "CREATE INDEX", p |-> "idx_budgets_category"]>>)

\* getDatabaseVersion without its catch, a failed read giving no number, to
\* show the first-launch property depends on the catch
getDatabaseVersion_noCatch(w) ==
  LET r == executeSql(w, "SELECT value FROM settings", DbVersionKey)
  IN  [w |-> r.w,
       v |-> IF ~r.ok THEN NaN
             ELSE IF r.rows # {}
             THEN ParseInt((CHOOSE x \in r.rows : TRUE).value)
             ELSE Num(0)]

\* the version read: 0 when the statement fails (the catch) or finds no row
getDatabaseVersion(w) ==
  LET r == executeSql(w, "SELECT value FROM settings", DbVersionKey)
  IN  [w |-> r.w,
       v |-> IF r.ok /\ r.rows # {}
             THEN ParseInt((CHOOSE x \in r.rows : TRUE).value)
             ELSE Num(0)]

setDatabaseVersion(w, version) ==
  executeSql(w, "INSERT OR REPLACE INTO settings",
             [key |-> DbVersionKey, value |-> NumberToString(version),
              updated_at |-> NowISO])

isFirstLaunch(w) ==
  LET g == getDatabaseVersion(w)
  IN  Resolve(g.w, [v |-> (~g.v.nan /\ g.v.n = 0)])

\* the outcome of a call whose last awaited step ended as r
Awaited(r) == IF ~r.ok THEN Reject(r.w, r.err) ELSE Resolve(r.w, NoRet)

\* runMigrations at version 0 after its createIndexes, which ended as i
AfterCreateIndexes(i) ==
  IF ~i.ok THEN Reject(i.w, i.err)
  ELSE Awaited(setDatabaseVersion(i.w, DATABASE_VERSION))

\* runMigrations at version 0 after its createTables, which ended as t
AfterCreateTables(t) ==
  IF ~t.ok THEN Reject(t.w, t.err)
  ELSE AfterCreateIndexes(createIndexes(t.w))

\* runMigrations after its getDatabaseVersion, which ended as g:
\* currentVersion === 0, currentVersion < DATABASE_VERSION, or neither
AfterVersionRead(g) ==
  IF ~g.v.nan /\ g.v.n = 0 THEN AfterCreateTables(createTables(g.w))
  ELSE IF ~g.v.nan /\ g.v.n < DATABASE_VERSION
  THEN Awaited(setDatabaseVersion(g.w, DATABASE_VERSION))
  ELSE Resolve(g.w, NoRet)

runMigrations(w) == AfterVersionRead(getDatabaseVersion(openDatabase(w)))

dropAllTables(w) ==
  LET r == RunAll(w, <<[q |-> "DROP TABLE", p |-> "transactions"],
                       [q |-> "DROP TABLE", p |-> "budgets"],
                       [q |-> "DROP TABLE", p |-> "categories"],
                       [q |-> "DROP TABLE", p |-> "settings"]>>)
  IN  IF r.ok THEN Resolve(r.w, NoRet) ELSE Reject(r.w, r.err)

(***************************************************************************)
(* Settings store (settingsService.js).                                    *)
(***************************************************************************)
DEFAULT_SETTINGS ==
  << [key |-> <<"c","u","r","r","e","n","c","y">>,
      value |-> <<"U","S","D">>],
     [key |-> <<"t","h","e","m","e">>,
      value |-> <<"l","i","g","h","t">>],
     [key |-> <<"n","o","t","i","f","i","c","a","t","i","o","n","s","_",
                 "e","n","a","b","l","e","d">>,
      value |-> <<"t","r","u","e">>],
     [key |-> <<"b","u","d","g","e","t","_","a","l","e","r","t","s","_",
                 "e","n","a","b","l","e","d">>,
      value |-> <<"t","r","u","e">>] >>

\* the outcome of getSetting whose SELECT ended as r:
\* result.rows.length === 0 ? null : result.rows.item(0).value
ValueOrNull(r) ==
  IF ~r.ok THEN Reject(r.w, r.err)
  ELSE IF r.rows = {} THEN Resolve(r.w, [v |-> Null])
  ELSE Resolve(r.w, [v |-> (CHOOSE x \in r.rows : TRUE).value])

getSetting(w, key) ==
  ValueOrNull(executeSql(w, "SELECT value FROM settings", key))

setSetting(w, key, value) ==
  IF key = <<>> \/ Trim(key) = <<>>
  THEN Reject(w, Err("Setting key is required and must be a non-empty string", 0))
  ELSE IF value.t \in {"null", "undefined"}
  THEN Reject(w, Err("Setting value cannot be null or undefined", 0))
  ELSE LET valueStr == String(value)
           r == executeSql(w, "INSERT OR REPLACE INTO settings",
                           [key |-> key, value |-> valueStr,
                            updated_at |-> NowISO])
       IN  IF ~r.ok THEN Reject(r.w, r.err)
           ELSE Resolve(r.w, [key |-> key, value |-> valueStr,
                              updated_at |-> NowISO])

\* deleteSetting with a catch that does not throw again, to show the
\* propagation of failures depends on the throw
deleteSetting_noThrow(w, key) ==
  LET r == executeSql(w, "DELETE FROM settings", key)
  IN  Resolve(r.w, NoRet)

deleteSetting(w, key) ==
  LET r == executeSql(w, "DELETE FROM settings", key)
  IN  IF ~r.ok THEN Reject(r.w, r.err) ELSE Resolve(r.w, NoRet)

\* getSettingWithDefault without its catch, to show the never-rejects
\* property depends on it
getSettingWithDefault_noCatch(w, key, defaultValue) ==
  LET g == getSetting(w, key)
  IN  IF ~g.ok THEN Reject(g.w, g.err)
      ELSE Resolve(g.w, [v |-> IF g.ret.v # Null THEN g.ret.v
                               ELSE defaultValue])

\* the catch returns defaultValue
getSettingWithDefault(w, key, defaultValue) ==
  LET g == getSetting(w, key)
  IN  Resolve(g.w, [v |-> IF g.ok /\ g.ret.v # Null THEN g.ret.v
                          ELSE defaultValue])

\* the loop of initializeDefaultSettings over the entries ds
RECURSIVE InitDefaults(_, _)
InitDefaults(w, ds) ==
  IF ds = <<>> THEN Resolve(w, NoRet)
  ELSE LET g == getSetting(w, Head(ds).key)
       IN  IF ~g.ok THEN Reject(g.w, g.err)
           ELSE IF g.ret.v = Null
           THEN LET s == setSetting(g.w, Head(ds).key, JsStr(Head(ds).value))
                IN  IF ~s.ok THEN Reject(s.w, s.err)
                    ELSE InitDefaults(s.w, Tail(ds))
           ELSE InitDefaults(g.w, Tail(ds))

\* the loop with the test `existing === null` left out, to show the
\* preservation of present keys depends on it
RECURSIVE InitDefaults_overwrite(_, _)
InitDefaults_overwrite(w, ds) ==
  IF ds = <<>> THEN Resolve(w, NoRet)
  ELSE LET s == setSetting(w, Head(ds).key, JsStr(Head(ds).value))
       IN  IF ~s.ok THEN Reject(s.w, s.err)
           ELSE InitDefaults_overwrite(s.w, Tail(ds))

initializeDefaultSettings_overwrite(w) ==
  InitDefaults_overwrite(w, DEFAULT_SETTINGS)

initializeDefaultSettings(w) == InitDefaults(w, DEFAULT_SETTINGS)

(***************************************************************************)
(* Category store (categoryService.js).                                    *)
(***************************************************************************)
DEFAULT_CATEGORIES ==
  << [name |-> <<"F","o","o","d"," ","&"," ","D","i","n","i","n","g">>,
      icon |-> "food", color |-> <<"#","F","F","6","B","6","B">>],
     [name |-> <<"T","r","a","n","s","p","o","r","t">>,
      icon |-> "car", color |-> <<"#","4","E","C","D","C","4">>],
     [name |-> <<"S","h","o","p","p","i","n","g">>,
      icon |-> "shopping", color |-> <<"#","4","5","B","7","D","1">>],
     [name |-> <<"B","i","l","l","s"," ","&"," ","U","t","i","l","i","t","i","e","s">>,
      icon |-> "receipt", color |-> <<"#","F","F","A","0","7","A">>],
     [name |-> <<"E","n","t","e","r","t","a","i","n","m","e","n","t">>,
      icon |-> "movie", color |-> <<"#","9","8","D","8","C","8">>],
     [name |-> <<"H","e","a","l","t","h"," ","&"," ","F","i","t","n","e","s","s">>,
      icon |-> "heart", color |-> <<"#","F","7","B","7","3","1">>],
     [name |-> <<"E","d","u","c","a","t","i","o","n">>,
      icon |-> "school", color |-> <<"#","5","F","2","7","C","D">>],
     [name |-> <<"G","r","o","c","e","r","i","e","s">>,
      icon |-> "cart", color |-> <<"#","0","0","D","2","D","3">>],
     [name |-> <<"S","a","l","a","r","y">>,
      icon |-> "cash", color |-> <<"#","1","D","D","1","A","1">>],
     [name |-> <<"O","t","h","e","r"," ","I","n","c","o","m","e">>,
      icon |-> "cash-multiple", color |-> <<"#","1","0","A","C","8","4">>],
     [name |-> <<"U","n","c","a","t","e","g","o","r","i","z","e","d">>,
      icon |-> "help-circle", color |-> <<"#","9","5","A","5","A","6">>] >>

\* the message validateCategory throws, "" when it returns
validateCategory(data) ==
  IF data.name = <<>> \/ Trim(data.name) = <<>>
  THEN "Category name is required and must be a non-empty string"
  ELSE IF data.color # <<>> /\ ~IsHexColor(data.color)
  THEN "Color must be a valid hex color code (e.g., #FF6B6B)"
  ELSE ""

\* `s || null` without the default, to show the created records depend
\* on it
StrOrNull_asGiven(s) == s

StrOrNull(s) == IF s = "" THEN NullStr ELSE s
TupleOrNull(s) == IF s = <<>> THEN Null ELSE s

\* createCategory storing the name as given, to show the name properties
\* depend on the trim
createCategory_noTrim(w, data) ==
  LET invalid == validateCategory(data)
      row == [name |-> data.name,
              icon |-> StrOrNull(data.icon),
              color |-> TupleOrNull(data.color),
              is_default |-> IF data.is_default THEN 1 ELSE 0,
              created_at |-> NowISO]
      r == executeSql(w, "INSERT INTO categories", row)
  IN  IF invalid # "" THEN Reject(w, Err(invalid, 0))
      ELSE IF ~r.ok
      THEN IF r.err.msg = "UNIQUE constraint failed"
           THEN Reject(r.w, Err("already exists", 0))
           ELSE Reject(r.w, r.err)
      ELSE Resolve(r.w, [id |-> r.insertId] @@ row)

createCategory(w, data) ==
  LET invalid == validateCategory(data)
      row == [name |-> Trim(data.name),
              icon |-> StrOrNull(data.icon),
              color |-> TupleOrNull(data.color),
              is_default |-> IF data.is_default THEN 1 ELSE 0,
              created_at |-> NowISO]
      r == executeSql(w, "INSERT INTO categories", row)
  IN  IF invalid # "" THEN Reject(w, Err(invalid, 0))
      ELSE IF ~r.ok
      THEN IF r.err.msg = "UNIQUE constraint failed"
           THEN Reject(r.w, Err("already exists", 0))
           ELSE Reject(r.w, r.err)
      ELSE Resolve(r.w, [id |-> r.insertId] @@ row)

getCategoryById(w, id) ==
  FirstRow(executeSql(w, "SELECT * FROM categories", id))

\* the catch of createCategory and updateCategory
TranslateUnique(e) ==
  IF e.msg = "UNIQUE constraint failed" THEN Err("already exists", 0) ELSE e

updateCategory(w, id, data) ==
  LET invalid == validateCategory(data)
      existing == getCategoryById(w, id)
      u == executeSql(existing.w, "UPDATE categories",
                      [id |-> id, name |-> Trim(data.name),
                       icon |-> StrOrNull(data.icon),
                       color |-> TupleOrNull(data.color)])
      g == getCategoryById(u.w, id)
  IN  IF invalid # "" THEN Reject(w, Err(invalid, 0))
      ELSE IF ~existing.ok THEN Reject(existing.w, TranslateUnique(existing.err))
      ELSE IF ~existing.ret.found
      THEN Reject(existing.w, Err("Category not found", id))
      ELSE IF ~u.ok THEN Reject(u.w, TranslateUnique(u.err))
      ELSE IF ~g.ok THEN Reject(g.w, TranslateUnique(g.err))
      ELSE g

\* deleteCategory without its count of budgets, to show the delete
\* properties depend on it
deleteCategory_noBudgetCount(w, id) ==
  LET existing == getCategoryById(w, id)
      tc == executeSql(existing.w, "SELECT COUNT(*) FROM transactions", id)
      d == executeSql(tc.w, "DELETE FROM categories", id)
  IN  IF ~existing.ok THEN Reject(existing.w, existing.err)
      ELSE IF ~existing.ret.found
      THEN Reject(existing.w, Err("Category not found", id))
      ELSE IF ~tc.ok THEN Reject(tc.w, tc.err)
      ELSE IF (CHOOSE x \in tc.rows : TRUE).count > 0
      THEN Reject(tc.w, Err("Cannot delete category with associated transaction(s)",
                            (CHOOSE x \in tc.rows : TRUE).count))
      ELSE IF ~d.ok THEN Reject(d.w, d.err)
      ELSE Resolve(d.w, NoRet)

deleteCategory(w, id) ==
  LET existing == getCategoryById(w, id)
      tc == executeSql(existing.w, "SELECT COUNT(*) FROM transactions", id)
      bc == executeSql(tc.w, "SELECT COUNT(*) FROM budgets", id)
      d == executeSql(bc.w, "DELETE FROM categories", id)
  IN  IF ~existing.ok THEN Reject(existing.w, existing.err)
      ELSE IF ~existing.ret.found
      THEN Reject(existing.w, Err("Category not found", id))
      ELSE IF ~tc.ok THEN Reject(tc.w, tc.err)
      ELSE IF (CHOOSE x \in tc.rows : TRUE).count > 0
      THEN Reject(tc.w, Err("Cannot delete category with associated transaction(s)",
                            (CHOOSE x \in tc.rows : TRUE).count))
      ELSE IF ~bc.ok THEN Reject(bc.w, bc.err)
      ELSE IF (CHOOSE x \in bc.rows : TRUE).count > 0
      THEN Reject(bc.w, Err("Cannot delete category with associated budget(s)",
                            (CHOOSE x \in bc.rows : TRUE).count))
      ELSE IF ~d.ok THEN Reject(d.w, d.err)
      ELSE Resolve(d.w, NoRet)

\* the loop of seedDefaultCategories over the catalog entries cs, created
\* being the records created so far
RECURSIVE SeedLoop(_, _, _)
SeedLoop(w, cs, created) ==
  IF cs = <<>> THEN Resolve(w, [v |-> created])
  ELSE LET c == createCategory(w, Head(cs) @@ [is_default |-> TRUE])
       IN  IF c.ok THEN SeedLoop(c.w, Tail(cs), Append(created, c.ret))
           ELSE IF c.err.msg = "already exists"
           THEN SeedLoop(c.w, Tail(cs), created)
           ELSE Reject(c.w, c.err)

\* the loop with a catch that throws every error again, to show the
\* re-runnability depends on skipping 'already exists'
RECURSIVE SeedLoop_noSkip(_, _, _)
SeedLoop_noSkip(w, cs, created) ==
  IF cs = <<>> THEN Resolve(w, [v |-> created])
  ELSE LET c == createCategory(w, Head(cs) @@ [is_default |-> TRUE])
       IN  IF c.ok THEN SeedLoop_noSkip(c.w, Tail(cs), Append(created, c.ret))
           ELSE Reject(c.w, c.err)

seedDefaultCategories_noSkip(w) ==
  SeedLoop_noSkip(w, DEFAULT_CATEGORIES, <<>>)

seedDefaultCategories(w) == SeedLoop(w, DEFAULT_CATEGORIES, <<>>)

(***************************************************************************)
(* Transaction store (transactionService.js).                              *)
(***************************************************************************)
\* validateTransaction without its check of the amount, to show the amount
\* properties depend on it
validateTransaction_anyAmount(data) ==
  IF data.description = <<>> \/ Trim(data.description) = <<>>
  THEN "Description is required and must be a non-empty string"
  ELSE IF data.type = "" \/ data.type \notin {"income", "expense"}
  THEN "Type must be either \"income\" or \"expense\""
  ELSE IF data.date # <<>> /\ ~IsISODate(data.date)
  THEN "Date must be in ISO 8601 format (YYYY-MM-DD)"
  ELSE IF data.source # "" /\ data.source \notin {"manual", "sms", "upload"}
  THEN "Source must be \"manual\", \"sms\", or \"upload\""
  ELSE ""

\* the message validateTransaction throws, "" when it returns
validateTransaction(data) ==
  IF data.amount = 0 \/ data.amount <= 0
  THEN "Amount must be a number greater than 0"
  ELSE IF data.description = <<>> \/ Trim(data.description) = <<>>
  THEN "Description is required and must be a non-empty string"
  ELSE IF data.type = "" \/ data.type \notin {"income", "expense"}
  THEN "Type must be either \"income\" or \"expense\""
  ELSE IF data.date # <<>> /\ ~IsISODate(data.date)
  THEN "Date must be in ISO 8601 format (YYYY-MM-DD)"
  ELSE IF data.source # "" /\ data.source \notin {"manual", "sms", "upload"}
  THEN "Source must be \"manual\", \"sms\", or \"upload\""
  ELSE ""

createTransaction(w, data) ==
  LET invalid == validateTransaction(data)
      row == [amount |-> data.amount,
              description |-> Trim(data.description),
              date |-> IF data.date # <<>> THEN data.date ELSE Today,
              type |-> data.type,
              category_id |-> IF data.category_id # 0 THEN data.category_id
                              ELSE NullId,
              is_manually_set |-> IF data.is_manually_set THEN 1 ELSE 0,
              source |-> IF data.source # "" THEN data.source ELSE "manual",
              raw_data |-> StrOrNull(data.raw_data),
              created_at |-> NowISO,
              updated_at |-> NowISO]
      r == executeSql(w, "INSERT INTO transactions", row)
  IN  IF invalid # "" THEN Reject(w, Err(invalid, 0))
      ELSE IF ~r.ok THEN Reject(r.w, r.err)
      ELSE Resolve(r.w, [id |-> r.insertId] @@ row)

getTransactionById(w, id) ==
  FirstRow(executeSql(w, "SELECT FROM transactions LEFT JOIN categories", id))

updateTransaction(w, id, data) ==
  LET invalid == validateTransaction(data)
      existing == getTransactionById(w, id)
      u == executeSql(existing.w, "UPDATE transactions",
             [id |-> id,
              amount |-> data.amount,
              description |-> Trim(data.description),
              date |-> IF data.date # <<>> THEN data.date
                       ELSE existing.ret.date,
              type |-> data.type,
              category_id |-> IF data.category_id # 0 THEN data.category_id
                              ELSE NullId,
              is_manually_set |-> IF data.is_manually_set THEN 1 ELSE 0,
              source |-> IF data.source # "" THEN data.source
                         ELSE existing.ret.source,
              raw_data |-> IF data.raw_data # "" THEN data.raw_data
                           ELSE existing.ret.raw_data,
              updated_at |-> NowISO])
      g == getTransactionById(u.w, id)
  IN  IF invalid # "" THEN Reject(w, Err(invalid, 0))
      ELSE IF ~existing.ok THEN Reject(existing.w, existing.err)
      ELSE IF ~existing.ret.found
      THEN Reject(existing.w, Err("Transaction not found", id))
      ELSE IF ~u.ok THEN Reject(u.w, u.err)
      ELSE g

\* deleteTransaction without its lookup of the row, to show the 'not found'
\* properties depend on it
deleteTransaction_noLookup(w, id) ==
  LET d == executeSql(w, "DELETE FROM transactions", id)
  IN  IF ~d.ok THEN Reject(d.w, d.err) ELSE Resolve(d.w, NoRet)

deleteTransaction(w, id) ==
  LET existing == getTransactionById(w, id)
      d == executeSql(existing.w, "DELETE FROM transactions", id)
  IN  IF ~existing.ok THEN Reject(existing.w, existing.err)
      ELSE IF ~existing.ret.found
      THEN Reject(existing.w, Err("Transaction not found", id))
      ELSE IF ~d.ok THEN Reject(d.w, d.err)
      ELSE Resolve(d.w, NoRet)

\* a value in a condition: if (value)
Truthy(v) ==
  CASE v.t = "string" -> v.s # <<>>
    [] v.t = "number" -> v.n # 0
    [] v.t = "boolean" -> v.n = 1
    [] OTHER -> FALSE

\* filters: startDate, endDate <<>>, category_id 0 and type "" when not
\* given (each is as falsy as the absent field); limit and offset are JS
\* values.  lists: the arrays the call may return
getAllTransactions(w, filters) ==
  LET clauses ==
        {c \in {"startDate", "endDate", "category_id", "type", "LIMIT",
                "OFFSET"} :
           \/ c = "startDate" /\ filters.startDate # <<>>
           \/ c = "endDate" /\ filters.endDate # <<>>
           \/ c = "category_id" /\ filters.category_id # 0
           \/ c = "type" /\ filters.type # ""
           \/ c = "LIMIT" /\ Truthy(filters.limit)
           \/ c = "OFFSET" /\ Truthy(filters.offset)}
      r == executeSql(w,
             "SELECT FROM transactions LEFT JOIN categories WHERE 1=1",
             [clauses |-> clauses, startDate |-> filters.startDate,
              endDate |-> filters.endDate,
              category_id |-> filters.category_id, type |-> filters.type,
              limit |-> filters.limit.n, offset |-> filters.offset.n])
  IN  IF ~r.ok THEN Reject(r.w, r.err)
      ELSE Resolve(r.w, [lists |-> r.rows])

\* value || 0
OrZero(v) == IF Truthy(v) THEN v.n ELSE 0

getTransactionSummary(w, startDate, endDate) ==
  LET r == executeSql(w, "SELECT SUM(CASE) FROM transactions",
                      [from |-> startDate, to |-> endDate])
      row == CHOOSE x \in r.rows : TRUE
  IN  IF ~r.ok THEN Reject(r.w, r.err)
      ELSE Resolve(r.w,
             [total_income |-> OrZero(row.total_income),
              total_expense |-> OrZero(row.total_expense),
              balance |-> OrZero(row.total_income)
                          - OrZero(row.total_expense),
              total_count |-> row.total_count])

\* ORDER BY total_amount DESC
LargerTotal(S) == {p \in S \X S : p[1].total_amount > p[2].total_amount}

\* lists: the arrays the call may return
getSpendingByCategory(w, startDate, endDate) ==
  LET r == executeSql(w,
             "SELECT SUM(t.amount) FROM transactions JOIN categories",
             [from |-> startDate, to |-> endDate])
  IN  IF ~r.ok THEN Reject(r.w, r.err)
      ELSE Resolve(r.w, [lists |-> Orderings(r.rows, LargerTotal(r.rows))])

(***************************************************************************)
(* Budget store (budgetService.js).                                        *)
(***************************************************************************)
\* validateBudget without its comparison of the two dates, to show the
\* validation properties depend on it
validateBudget_anyOrder(data) ==
  IF data.amount = 0 \/ data.amount <= 0
  THEN "Amount must be a number greater than 0"
  ELSE IF data.category_id = 0
  THEN "Category ID is required and must be a number"
  ELSE IF data.period = "" \/ data.period \notin {"monthly", "weekly"}
  THEN "Period must be either \"monthly\" or \"weekly\""
  ELSE IF data.start_date = <<>> \/ ~IsISODate(data.start_date)
  THEN "Start date is required and must be in ISO 8601 format (YYYY-MM-DD)"
  ELSE IF data.end_date # <<>> /\ ~IsISODate(data.end_date)
  THEN "End date must be in ISO 8601 format (YYYY-MM-DD)"
  ELSE ""

\* the message validateBudget throws, "" when it returns
validateBudget(data) ==
  IF data.amount = 0 \/ data.amount <= 0
  THEN "Amount must be a number greater than 0"
  ELSE IF data.category_id = 0
  THEN "Category ID is required and must be a number"
  ELSE IF data.period = "" \/ data.period \notin {"monthly", "weekly"}
  THEN "Period must be either \"monthly\" or \"weekly\""
  ELSE IF data.start_date = <<>> \/ ~IsISODate(data.start_date)
  THEN "Start date is required and must be in ISO 8601 format (YYYY-MM-DD)"
  ELSE IF data.end_date # <<>> /\ ~IsISODate(data.end_date)
  THEN "End date must be in ISO 8601 format (YYYY-MM-DD)"
  ELSE IF data.end_date # <<>> /\ StrLess(data.end_date, data.start_date)
  THEN "End date must be after start date"
  ELSE ""

createBudget(w, data) ==
  LET invalid == validateBudget(data)
      categoryCheck == executeSql(w, "SELECT id FROM categories",
                                  data.category_id)
      row == [category_id |-> data.category_id,
              amount |-> data.amount,
              period |-> data.period,
              start_date |-> data.start_date,
              end_date |-> TupleOrNull(data.end_date),
              created_at |-> NowISO,
              updated_at |-> NowISO]
      r == executeSql(categoryCheck.w, "INSERT INTO budgets", row)
  IN  IF invalid # "" THEN Reject(w, Err(invalid, 0))
      ELSE IF ~categoryCheck.ok THEN Reject(categoryCheck.w, categoryCheck.err)
      ELSE IF categoryCheck.rows = {}
      THEN Reject(categoryCheck.w, Err("Category does not exist", data.category_id))
      ELSE IF ~r.ok THEN Reject(r.w, r.err)
      ELSE Resolve(r.w, [id |-> r.insertId] @@ row)

getBudgetById(w, id) ==
  FirstRow(executeSql(w, "SELECT FROM budgets JOIN categories", id))

\* ORDER BY b.created_at DESC
CreatedLater(S) ==
  {p \in S \X S : StrLess(p[2].created_at, p[1].created_at)}

\* date: <<>> when not given; lists: the arrays the call may return
getActiveBudgets(w, date) ==
  LET checkDate == IF date # <<>> THEN date ELSE Today
      r == executeSql(w, "SELECT FROM budgets JOIN categories WHERE active",
                      checkDate)
  IN  IF ~r.ok THEN Reject(r.w, r.err)
      ELSE Resolve(r.w, [lists |-> Orderings(r.rows, CreatedLater(r.rows))])

updateBudget(w, id, data) ==
  LET invalid == validateBudget(data)
      existing == getBudgetById(w, id)
      categoryCheck == executeSql(existing.w, "SELECT id FROM categories",
                                  data.category_id)
      u == executeSql(categoryCheck.w, "UPDATE budgets",
             [id |-> id,
              category_id |-> data.category_id,
              amount |-> data.amount,
              period |-> data.period,
              start_date |-> data.start_date,
              end_date |-> TupleOrNull(data.end_date),
              updated_at |-> NowISO])
      g == getBudgetById(u.w, id)
  IN  IF invalid # "" THEN Reject(w, Err(invalid, 0))
      ELSE IF ~existing.ok THEN Reject(existing.w, existing.err)
      ELSE IF ~existing.ret.found
      THEN Reject(existing.w, Err("Budget not found", id))
      ELSE IF ~categoryCheck.ok THEN Reject(categoryCheck.w, categoryCheck.err)
      ELSE IF categoryCheck.rows = {}
      THEN Reject(categoryCheck.w, Err("Category does not exist", data.category_id))
      ELSE IF ~u.ok THEN Reject(u.w, u.err)
      ELSE g

deleteBudget(w, id) ==
  LET existing == getBudgetById(w, id)
      d == executeSql(existing.w, "DELETE FROM budgets", id)
  IN  IF ~existing.ok THEN Reject(existing.w, existing.err)
      ELSE IF ~existing.ret.found
      THEN Reject(existing.w, Err("Budget not found", id))
      ELSE IF ~d.ok THEN Reject(d.w, d.err)
      ELSE Resolve(d.w, NoRet)

\* the percentage cut to two decimals instead of rounded, to show the
\* threshold properties depend on the rounding
Percentage_truncated(spent, amount) ==
  IF amount > 0 THEN (spent * 10000) \div amount ELSE 0

\* Math.round(spent / amount * 100 * 100) / 100, in hundredths of a percent
Percentage(spent, amount) ==
  IF amount > 0 THEN (2 * spent * 10000 + amount) \div (2 * amount) ELSE 0

\* startDate, endDate: <<>> when not given
getBudgetProgress(w, budgetId, startDate, endDate) ==
  LET budget == getBudgetById(w, budgetId)
      periodStart == IF startDate # <<>> THEN startDate
                     ELSE budget.ret.start_date
      periodEnd == IF endDate # <<>> THEN endDate ELSE Today
      r == executeSql(budget.w, "SELECT SUM(amount) FROM transactions",
                      [category_id |-> budget.ret.category_id,
                       from |-> periodStart, to |-> periodEnd])
      spent == (CHOOSE x \in r.rows : TRUE).spent
  IN  IF ~budget.ok THEN Reject(budget.w, budget.err)
      ELSE IF ~budget.ret.found
      THEN Reject(budget.w, Err("Budget not found", budgetId))
      ELSE IF ~r.ok THEN Reject(r.w, r.err)
      ELSE Resolve(r.w, [budget_id |-> budgetId,
                         budget_amount |-> budget.ret.amount,
                         spent |-> spent,
                         remaining |-> budget.ret.amount - spent,
                         percentage |-> Percentage(spent, budget.ret.amount),
                         is_exceeded |-> spent > budget.ret.amount,
                         period_start |-> periodStart,
                         period_end |-> periodEnd])

(***************************************************************************)
(* Startup and shutdown (index.js).                                        *)
(***************************************************************************)
\* initializeDatabase after its seeding of the categories, with outcome c
AfterSeeding(c) ==
  IF ~c.ok THEN Reject(c.w, c.err)
  ELSE LET s == initializeDefaultSettings(c.w)
       IN  IF ~s.ok THEN Reject(s.w, s.err) ELSE Resolve(s.w, NoRet)

\* initializeDatabase after its call of isFirstLaunch, with outcome f
AfterFirstLaunch(f) ==
  IF ~f.ret.v THEN Resolve(f.w, NoRet)
  ELSE AfterSeeding(seedDefaultCategories(f.w))

\* initializeDatabase after its call of runMigrations, with outcome m
AfterMigrations(m) ==
  IF ~m.ok THEN Reject(m.w, m.err)
  ELSE AfterFirstLaunch(isFirstLaunch(m.w))

initializeDatabase(w) == AfterMigrations(runMigrations(openDatabase(w)))

shutdownDatabase(w) == Resolve(closeDatabase(w), NoRet)

(***************************************************************************)
(* Actions: one call of an exported function, run to completion.           *)
(***************************************************************************)
\* no connection call in flight, no handle handed out
NoCalls ==
  [queries |-> <<>>,
   close |-> [pc |-> "idle", handle |-> NoHandle],
   delete |-> [pc |-> "idle", handle |-> NoHandle],
   live |-> {}, made |-> 0]

\* no store call in flight
NoStoreCalls ==
  [del |-> [pc |-> "idle", id |-> 0, referenced |-> FALSE],
   cb |-> [pc |-> "idle", category_id |-> 0, dangling |-> FALSE]]

Commit(w) ==
  /\ db' = w.db
  /\ opens' = w.opens
  /\ tables' = w.tables
  /\ indexes' = w.indexes
  /\ categories' = w.categories
  /\ transactions' = w.transactions
  /\ budgets' = w.budgets
  /\ settings' = w.settings
  /\ seq' = w.seq

\* a call of the exported function op, with outcome r
Call(op, r) ==
  /\ Commit(r.w)
  /\ last' = [op |-> op, ok |-> r.ok, err |-> r.err, ret |-> r.ret,
              stmts |-> r.w.log, opened |-> r.w.opens > opens,
              failures |-> r.w.failures]
  /\ UNCHANGED <<fk, now, conn, calls>>

Init ==
  /\ db = NoHandle
  /\ opens = 0
  /\ fk \in BOOLEAN
  /\ now = 0
  /\ tables = {}
  /\ indexes = {}
  /\ categories = {}
  /\ transactions = {}
  /\ budgets = {}
  /\ settings = EmptySettings
  /\ seq = SeqZero
  /\ last = [op |-> "", ok |-> TRUE, err |-> NoError, ret |-> NoRet,
             stmts |-> <<>>, opened |-> FALSE, failures |-> <<>>]
  /\ conn = NoCalls
  /\ calls = NoStoreCalls

Tick ==
  /\ now < MaxClock
  /\ now' = now + 1
  /\ UNCHANGED <<db, opens, fk, tables, indexes, categories, transactions,
                 budgets, settings, seq, last, conn, calls>>

OpenDatabase ==
  LET w == openDatabase(World)
  IN  Call("openDatabase", Resolve(w, [v |-> w.db]))

CloseDatabase ==
  Call("closeDatabase", Resolve(closeDatabase(World), NoRet))

GetDatabase ==
  Call("getDatabase", Resolve(World, [v |-> getDatabase(World)]))

DeleteDatabase ==
  Call("deleteDatabase", Resolve(deleteDatabase(World), NoRet))

ShutdownDatabase == Call("shutdownDatabase", shutdownDatabase(World))

RunMigrations == Call("runMigrations", runMigrations(World))

IsFirstLaunch == Call("isFirstLaunch", isFirstLaunch(World))

DropAllTables == Call("dropAllTables", dropAllTables(World))

InitializeDatabase == Call("initializeDatabase", initializeDatabase(World))

SeedDefaultCategories ==
  LET r == seedDefaultCategories(World)
  IN  /\ r.w.seq.categories <= MaxCategoryId + Len(DEFAULT_CATEGORIES)
      /\ Call("seedDefaultCategories", r)

InitializeDefaultSettings ==
  Call("initializeDefaultSettings", initializeDefaultSettings(World))

\* inputs of the settings calls
SettingKeys == {DbVersionKey, <<"c","u","r","r","e","n","c","y">>, <<>>}
SettingValues ==
  {JsStr(<<"0">>), JsStr(<<"x">>), JsNum(2), JsStr(<<"E","U","R">>), JsNull}

\* the exported executeSql, called with one statement on the settings table
ExecuteSql(q, p) ==
  LET r == executeSql(World, q, p)
  IN  Call("executeSql",
           IF r.ok THEN Resolve(r.w, [rows |-> r.rows]) ELSE Reject(r.w, r.err))

GetSetting(key) == Call("getSetting", getSetting(World, key))

SetSetting(key, value) ==
  Call("setSetting", setSetting(World, key, value))

DeleteSetting(key) ==
  Call("deleteSetting", deleteSetting(World, key))

GetSettingWithDefault(key, defaultValue) ==
  Call("getSettingWithDefault",
       getSettingWithDefault(World, key, defaultValue))

Fallback == <<"f","a","l","l","b","a","c","k">>

(***************************************************************************)
(* The lifecycle: connection, schema, seeding and settings.                *)
(***************************************************************************)
NextLifecycle ==
  \/ OpenDatabase
  \/ CloseDatabase
  \/ GetDatabase
  \/ DeleteDatabase
  \/ ShutdownDatabase
  \/ RunMigrations
  \/ IsFirstLaunch
  \/ DropAllTables
  \/ InitializeDatabase
  \/ SeedDefaultCategories
  \/ InitializeDefaultSettings
  \/ \E k \in SettingKeys : ExecuteSql("SELECT value FROM settings", k)
  \/ \E k \in SettingKeys : GetSetting(k)
  \/ \E k \in SettingKeys, v \in SettingValues : SetSetting(k, v)
  \/ \E k \in SettingKeys : DeleteSetting(k)
  \/ \E k \in SettingKeys : GetSettingWithDefault(k, Fallback)

SpecLifecycle == Init /\ [][NextLifecycle]_vars

(***************************************************************************)
(* Inputs of the store calls.  An absent (undefined) field is the falsy   *)
(* value of its type: 0, <<>>, "" or FALSE.                                *)
(***************************************************************************)
MissingId == 999

Rent == <<"R","e","n","t">>
Salary == <<"S","a","l","a","r","y">>
Lunch == <<"L","u","n","c","h">>
Red == <<"#","f","f","0","0","0","0">>
Day0 == <<"2","0","2","4","-","0","1","-","1","0">>
Day1 == <<"2","0","2","4","-","0","1","-","1","1">>
BadDate == <<"2","0","2","4","-","1","-","0","5">>

CategoryData(name, icon, color) ==
  [name |-> name, icon |-> icon, color |-> color, is_default |-> FALSE]

ValidCategoryInputs ==
  { CategoryData(Rent, "", <<>>),
    CategoryData(<<" ">> \o Rent \o <<" ">>, "", <<>>),
    CategoryData(Salary, "home", Red) }

InvalidCategoryInputs ==
  { CategoryData(<<>>, "", <<>>),
    CategoryData(<<" ", " ">>, "", <<>>),
    CategoryData(Rent, "", <<"r","e","d">>),
    CategoryData(Rent, "", <<"#","F","F","F">>) }

CategoryInputs == ValidCategoryInputs \cup InvalidCategoryInputs

CategoryIds == 1..MaxCategoryId

TransactionData(amount, description, date, type, category_id, manual, source, raw_data) ==
  [amount |-> amount, description |-> description, date |-> date,
   type |-> type, category_id |-> category_id, is_manually_set |-> manual,
   source |-> source, raw_data |-> raw_data]

ValidTransactionInputs ==
  { TransactionData(100, Lunch, <<>>, "expense", 0, FALSE, "", ""),
    TransactionData(250, <<" ">> \o Lunch, Day0, "income", 1, TRUE, "manual",
                    ""),
    TransactionData(100, Lunch, <<>>, "expense", MissingId, FALSE, "", "") }

InvalidTransactionInputs ==
  { TransactionData(0, Lunch, <<>>, "expense", 1, FALSE, "", ""),
    TransactionData(0 - 100, Lunch, <<>>, "expense", 1, FALSE, "", ""),
    TransactionData(100, <<>>, <<>>, "expense", 1, FALSE, "", ""),
    TransactionData(100, <<" ">>, <<>>, "expense", 1, FALSE, "", ""),
    TransactionData(100, Lunch, <<>>, "", 1, FALSE, "", ""),
    TransactionData(100, Lunch, <<>>, "transfer", 1, FALSE, "", ""),
    TransactionData(100, Lunch, BadDate, "expense", 1, FALSE, "", ""),
    TransactionData(100, Lunch, <<>>, "expense", 1, FALSE, "email", "") }

TransactionInputs == ValidTransactionInputs \cup InvalidTransactionInputs

TransactionIds == 1..MaxTransactionId

BudgetData(category_id, amount, period, start_date, end_date) ==
  [category_id |-> category_id, amount |-> amount, period |-> period,
   start_date |-> start_date, end_date |-> end_date]

ValidBudgetInputs ==
  { BudgetData(1, 1000, "monthly", Day0, <<>>),
    BudgetData(2, 500, "weekly", Day0, Day1),
    BudgetData(MissingId, 1000, "monthly", Day0, Day0) }

InvalidBudgetInputs ==
  { BudgetData(1, 0, "monthly", Day0, <<>>),
    BudgetData(1, 0 - 500, "monthly", Day0, <<>>),
    BudgetData(0, 1000, "monthly", Day0, <<>>),
    BudgetData(1, 1000, "", Day0, <<>>),
    BudgetData(1, 1000, "yearly", Day0, <<>>),
    BudgetData(1, 1000, "monthly", <<>>, <<>>),
    BudgetData(1, 1000, "monthly", BadDate, <<>>),
    BudgetData(1, 1000, "monthly", Day0, BadDate),
    BudgetData(1, 1000, "monthly", Day1, Day0) }

BudgetInputs == ValidBudgetInputs \cup InvalidBudgetInputs

BudgetIds == 1..MaxBudgetId

(***************************************************************************)
(* Store calls.  A call that inserts a row is taken only while the ids of  *)
(* its table are within the bounds (for categories: MaxCategoryId ids      *)
(* besides those of the seeded catalog).                                   *)
(***************************************************************************)
CreateCategory(data) ==
  LET r == createCategory(World, data)
  IN  /\ r.ok => r.w.seq.categories
                  <= MaxCategoryId
                     + Cardinality({c \in categories : c.is_default = 1})
      /\ Call("createCategory", r)

GetCategoryById(id) == Call("getCategoryById", getCategoryById(World, id))

UpdateCategory(id, data) ==
  Call("updateCategory", updateCategory(World, id, data))

DeleteCategory(id) == Call("deleteCategory", deleteCategory(World, id))

\* createTransaction, taken while the ids stay within maxId
CreateTransactionWithin(data, maxId) ==
  LET r == createTransaction(World, data)
  IN  /\ r.ok => r.w.seq.transactions <= maxId
      /\ Call("createTransaction", r)

CreateTransaction(data) == CreateTransactionWithin(data, MaxTransactionId)

UpdateTransaction(id, data) ==
  Call("updateTransaction", updateTransaction(World, id, data))

DeleteTransaction(id) ==
  Call("deleteTransaction", deleteTransaction(World, id))

\* createBudget, taken while the ids stay within maxId
CreateBudgetWithin(data, maxId) ==
  LET r == createBudget(World, data)
  IN  /\ r.ok => r.w.seq.budgets <= maxId
      /\ Call("createBudget", r)

CreateBudget(data) == CreateBudgetWithin(data, MaxBudgetId)

\* getActiveBudgets, returning one of the arrays the ordering allows
GetActiveBudgets(date) ==
  LET r == getActiveBudgets(World, date)
  IN  IF r.ok
      THEN \E list \in r.ret.lists :
             Call("getActiveBudgets", Resolve(r.w, [list |-> list]))
      ELSE Call("getActiveBudgets", r)

GetTransactionSummary(startDate, endDate) ==
  Call("getTransactionSummary",
       getTransactionSummary(World, startDate, endDate))

\* getSpendingByCategory, returning one of the arrays the ordering allows
GetSpendingByCategory(startDate, endDate) ==
  LET r == getSpendingByCategory(World, startDate, endDate)
  IN  IF r.ok
      THEN \E list \in r.ret.lists :
             Call("getSpendingByCategory", Resolve(r.w, [list |-> list]))
      ELSE Call("getSpendingByCategory", r)

\* getAllTransactions, returning one of the arrays the ordering allows
GetAllTransactions(filters) ==
  LET r == getAllTransactions(World, filters)
  IN  IF r.ok
      THEN \E list \in r.ret.lists :
             Call("getAllTransactions", Resolve(r.w, [list |-> list]))
      ELSE Call("getAllTransactions", r)

UpdateBudget(id, data) == Call("updateBudget", updateBudget(World, id, data))

DeleteBudget(id) == Call("deleteBudget", deleteBudget(World, id))

GetBudgetProgress(id, startDate, endDate) ==
  Call("getBudgetProgress", getBudgetProgress(World, id, startDate, endDate))

(***************************************************************************)
(* The stores: categories, transactions and budgets on a migrated schema.  *)
(***************************************************************************)
\* the inputs the calls of NextStore are made with: every valid input and,
\* of the invalid ones, one per entity
StoreCategoryInputs ==
  { CategoryData(<<" ">> \o Rent \o <<" ">>, "", <<>>),
    CategoryData(Salary, "home", Red),
    CategoryData(<<" ", " ">>, "", <<>>) }
StoreTransactionInputs ==
  ValidTransactionInputs
    \cup {TransactionData(0, Lunch, <<>>, "expense", 1, FALSE, "", "")}
StoreBudgetInputs ==
  ValidBudgetInputs \cup {BudgetData(1, 1000, "monthly", Day1, Day0)}

NextStore ==
  \/ RunMigrations
  \/ \E d \in StoreCategoryInputs : CreateCategory(d)
  \/ \E i \in CategoryIds, d \in StoreCategoryInputs : UpdateCategory(i, d)
  \/ \E i \in CategoryIds : DeleteCategory(i)
  \/ \E d \in StoreTransactionInputs : CreateTransaction(d)
  \/ \E i \in TransactionIds, d \in StoreTransactionInputs :
       UpdateTransaction(i, d)
  \/ \E i \in TransactionIds : DeleteTransaction(i)
  \/ \E d \in StoreBudgetInputs : CreateBudget(d)
  \/ \E i \in BudgetIds, d \in StoreBudgetInputs : UpdateBudget(i, d)
  \/ \E i \in BudgetIds : DeleteBudget(i)
  \/ \E i \in BudgetIds : GetBudgetProgress(i, <<>>, <<>>)

SpecStore == Init /\ [][NextStore]_vars

(***************************************************************************)
(* The category store with its seeding, and rows that reference it.        *)
(***************************************************************************)
CategoryNameInputs ==
  { CategoryData(Rent, "", <<>>),
    CategoryData(<<" ">> \o Rent \o <<" ">>, "home", Red),
    CategoryData(Salary, "", <<>>),
    CategoryData(<<" ">> \o Salary \o <<"\t">>, "", <<>>),
    CategoryData(<<"s","a","l","a","r","y">>, "", <<>>),
    CategoryData(<<" ", " ">>, "", <<>>) }

NextCategories ==
  \/ RunMigrations
  \/ SeedDefaultCategories
  \/ \E d \in CategoryNameInputs : CreateCategory(d)
  \/ \E i \in CategoryIds, d \in CategoryNameInputs : UpdateCategory(i, d)
  \/ \E i \in CategoryIds : DeleteCategory(i)

SpecCategories == Init /\ [][NextCategories]_vars

(***************************************************************************)
(* Properties.  The rows of the store as one value, and what the catalog   *)
(* and the default settings look like once seeded.                         *)
(***************************************************************************)
Rows(w) == <<w.tables, w.indexes, w.categories, w.transactions, w.budgets,
             w.settings, w.seq>>

CatalogNames == {DEFAULT_CATEGORIES[i].name : i \in 1..Len(DEFAULT_CATEGORIES)}
DefaultKeys == {DEFAULT_SETTINGS[i].key : i \in 1..Len(DEFAULT_SETTINGS)}

VersionPersisted == DbVersionKey \in DOMAIN settings
CatalogSeeded == CatalogNames \subseteq {c.name : c \in categories}
DefaultsSeeded == DefaultKeys \subseteq DOMAIN settings

\* C1: an initializeDatabase() that resolves on a store with no db_version
\* key leaves the connection open, the schema migrated and the default
\* categories and default settings seeded; one that resolves on a store
\* that has the key adds no category and no setting.
C1_SeedsExactlyOnce ==
  [][ (last'.op = "initializeDatabase" /\ last'.ok)
      => /\ db' # NoHandle
         /\ VersionPersisted'
         /\ IF ~VersionPersisted
            THEN CatalogSeeded' /\ DefaultsSeeded'
            ELSE categories' = categories /\ settings' = settings ]_vars

\* C2: every transaction's non-null category_id and every budget's
\* category_id is the id of a category row that exists.
C2_ReferencesExist ==
  /\ \A t \in transactions :
       t.category_id # NullId => \E c \in categories : c.id = t.category_id
  /\ \A b \in budgets : \E c \in categories : c.id = b.category_id

Migrated == tables = TableNames
CategoryExists(id) == \E c \in categories : c.id = id
CategoryReferenced(id) ==
  \/ \E t \in transactions : t.category_id = id
  \/ \E b \in budgets : b.category_id = id

\* C3: on a migrated store, deleteCategory(id) of a category referenced by
\* a transaction or a budget rejects and changes no row; of an existing
\* unreferenced category it resolves and removes that row and nothing else,
\* and deleteCategory(id) called again rejects with 'not found'.
C3_DeleteCategory ==
  Migrated =>
    \A id \in CategoryIds \cup {MissingId} :
      LET r == deleteCategory(World, id)
          again == deleteCategory([r.w EXCEPT !.log = <<>>], id)
      IN  /\ CategoryReferenced(id) => ~r.ok /\ Rows(r.w) = Rows(World)
          /\ CategoryExists(id) /\ ~CategoryReferenced(id)
             => /\ r.ok
                /\ r.w.categories = {c \in categories : c.id # id}
                /\ Cardinality(r.w.categories) = Cardinality(categories) - 1
                /\ r.w.transactions = transactions
                /\ r.w.budgets = budgets
                /\ r.w.settings = settings
                /\ ~again.ok
                /\ again.err = Err("Category not found", id)
                /\ Rows(again.w) = Rows(r.w)

\* a deleteCategory was refused because of a budget, after another category
\* had been deleted
C3_Witness ==
  /\ last.op = "deleteCategory"
  /\ ~last.ok
  /\ last.err.msg = "Cannot delete category with associated budget(s)"
  /\ Cardinality(categories) < seq.categories

\* C4: no two category rows have the same name, and every stored name is
\* trimmed; a createCategory with valid data whose trimmed name is the name
\* of an existing category, and an updateCategory of an existing category
\* with valid data whose trimmed name is the name of another category,
\* reject with 'already exists' and change no row.
C4_UniqueNames ==
  /\ \A c1, c2 \in categories : c1.name = c2.name => c1.id = c2.id
  /\ \A c \in categories : Trim(c.name) = c.name
  /\ \A d \in CategoryNameInputs :
       LET takenBy == {c.id : c \in {x \in categories : x.name = Trim(d.name)}}
           r == createCategory(World, d)
       IN  /\ takenBy # {}
              => /\ ~r.ok
                 /\ r.err.msg = "already exists"
                 /\ Rows(r.w) = Rows(World)
           /\ \A id \in CategoryIds :
                LET u == updateCategory(World, id, d)
                IN  CategoryExists(id) /\ takenBy \ {id} # {}
                    => /\ ~u.ok
                       /\ u.err.msg = "already exists"
                       /\ Rows(u.w) = Rows(World)

\* an updateCategory was refused for its name on a store holding the seeded
\* catalog and a category created by hand
C4_Witness ==
  /\ last.op = "updateCategory"
  /\ ~last.ok
  /\ last.err.msg = "already exists"
  /\ CatalogSeeded
  /\ \E c \in categories : c.is_default = 0

NonPositiveAmounts == {0, 0 - 1, 0 - 100}
AllTransactionIds == TransactionIds \cup {MissingId}
AllBudgetIds == BudgetIds \cup {MissingId}
AllCategoryIds == CategoryIds \cup {MissingId}

\* a call that was rejected and changed no row
Refused(r) == ~r.ok /\ Rows(r.w) = Rows(World)

\* C5: every stored transaction and every stored budget has amount > 0, and
\* createTransaction, updateTransaction, createBudget and updateBudget with
\* an amount <= 0 (the rest of the input valid) reject and change no row.
C5_PositiveAmounts ==
  /\ \A t \in transactions : t.amount > 0
  /\ \A b \in budgets : b.amount > 0
  /\ \A a \in NonPositiveAmounts :
       /\ \A d \in ValidTransactionInputs :
            /\ Refused(createTransaction(World, [d EXCEPT !.amount = a]))
            /\ \A id \in AllTransactionIds :
                 Refused(updateTransaction(World, id, [d EXCEPT !.amount = a]))
       /\ \A d \in ValidBudgetInputs :
            /\ Refused(createBudget(World, [d EXCEPT !.amount = a]))
            /\ \A id \in AllBudgetIds :
                 Refused(updateBudget(World, id, [d EXCEPT !.amount = a]))

\* an updateTransaction with amount 0 was refused on a store holding a
\* transaction and a budget
C5_Witness ==
  /\ last.op = "updateTransaction"
  /\ ~last.ok
  /\ last.err.msg = "Amount must be a number greater than 0"
  /\ transactions # {}
  /\ budgets # {}

\* a call that was rejected before executing any statement: no row changed,
\* no statement logged, the handle and the count of opens as they were
RefusedUnexecuted(r) == ~r.ok /\ r.w = World

\* C6: create and update of a category, a transaction or a budget with an
\* input that fails validation reject without executing a statement: the
\* rows and the connection handle are unchanged.
C6_ValidationFirst ==
  /\ \A d \in InvalidCategoryInputs :
       /\ RefusedUnexecuted(createCategory(World, d))
       /\ \A id \in AllCategoryIds :
            RefusedUnexecuted(updateCategory(World, id, d))
  /\ \A d \in InvalidTransactionInputs :
       /\ RefusedUnexecuted(createTransaction(World, d))
       /\ \A id \in AllTransactionIds :
            RefusedUnexecuted(updateTransaction(World, id, d))
  /\ \A d \in InvalidBudgetInputs :
       /\ RefusedUnexecuted(createBudget(World, d))
       /\ \A id \in AllBudgetIds :
            RefusedUnexecuted(updateBudget(World, id, d))

\* a createBudget whose end_date is before its start_date was refused on a
\* store never opened, and the handle is still null
C6_Witness ==
  /\ last.op = "createBudget"
  /\ ~last.ok
  /\ last.err.msg = "End date must be after start date"
  /\ last.stmts = <<>>
  /\ db = NoHandle

ExistenceChecks ==
  {"SELECT * FROM categories", "SELECT FROM transactions LEFT JOIN categories",
   "SELECT FROM budgets JOIN categories"}

\* a call rejected with 'msg' naming id, having executed its existence
\* check and nothing else, no row changed
NotFound(r, msg, id) ==
  /\ ~r.ok
  /\ r.err = Err(msg, id)
  /\ Len(r.w.log) = 1
  /\ r.w.log[1] \in ExistenceChecks
  /\ Rows(r.w) = Rows(World)

\* C7: on a migrated store, update and delete of a category, a transaction
\* or a budget, and getBudgetProgress, called with valid data and an id
\* that has no row reject with 'not found' naming the id, after the
\* existence check and before any other statement, and change no row.
C7_NotFoundFirst ==
  Migrated =>
    /\ \A id \in AllCategoryIds :
         ~CategoryExists(id)
         => /\ NotFound(deleteCategory(World, id), "Category not found", id)
            /\ \A d \in ValidCategoryInputs :
                 NotFound(updateCategory(World, id, d),
                          "Category not found", id)
    /\ \A id \in AllTransactionIds :
         (\A t \in transactions : t.id # id)
         => /\ NotFound(deleteTransaction(World, id),
                        "Transaction not found", id)
            /\ \A d \in ValidTransactionInputs :
                 NotFound(updateTransaction(World, id, d),
                          "Transaction not found", id)
    /\ \A id \in AllBudgetIds :
         (\A b \in budgets : b.id # id)
         => /\ NotFound(deleteBudget(World, id), "Budget not found", id)
            /\ NotFound(getBudgetProgress(World, id, <<>>, <<>>),
                        "Budget not found", id)
            /\ NotFound(getBudgetProgress(World, id, Day0, Day1),
                        "Budget not found", id)
            /\ \A d \in ValidBudgetInputs :
                 NotFound(updateBudget(World, id, d), "Budget not found", id)

\* a deleteTransaction of a transaction deleted before was refused
C7_Witness ==
  /\ last.op = "deleteTransaction"
  /\ ~last.ok
  /\ last.err = Err("Transaction not found", 1)
  /\ seq.transactions = 1

\* the exported functions that reach the store through executeSql only
SqlOnlyOps ==
  {"executeSql", "getSetting", "setSetting", "deleteSetting", "isFirstLaunch",
   "dropAllTables", "seedDefaultCategories", "initializeDefaultSettings"}

\* the errors of the engine's statements
StatementErrors ==
  {"no such table", "UNIQUE constraint failed", "FOREIGN KEY constraint failed"}

\* a step in which one of SqlOnlyOps executed a statement although the
\* handle was null when it was called
ExecutedWhileClosed ==
  /\ db = NoHandle
  /\ last'.op \in SqlOnlyOps
  /\ last'.stmts # <<>>

C9_OpenOnce ==
  [][ /\ opens' <= 1
      /\ last'.op = "openDatabase"
         => /\ last'.ok
            /\ db' # NoHandle
            /\ last'.ret.v = db'
            /\ db # NoHandle => db' = db /\ opens' = opens /\ ~last'.opened
      /\ last'.op = "closeDatabase" => last'.ok /\ db' = NoHandle
      /\ last'.op = "closeDatabase" /\ db = NoHandle
         => UNCHANGED <<db, opens, tables, indexes, categories, transactions,
                        budgets, settings, seq>>
      /\ last'.op = "getDatabase" => last'.ret.v = db /\ db' = db ]_vars

\* an openDatabase found the handle cached and returned it
C9_Witness ==
  /\ last.op = "openDatabase"
  /\ ~last.opened
  /\ last.ret.v = db
  /\ opens = 1

\* C10: wherever no db_version key is persisted, the settings table missing
\* included, isFirstLaunch() resolves true; right after a runMigrations()
\* that resolved it resolves false.
C10_FirstLaunch ==
  /\ ~VersionPersisted
     => isFirstLaunch(World).ok /\ isFirstLaunch(World).ret.v
  /\ last.op = "runMigrations" /\ last.ok
     => isFirstLaunch(World).ok /\ ~isFirstLaunch(World).ret.v
  /\ last.op = "isFirstLaunch" /\ ~VersionPersisted => last.ok /\ last.ret.v

\* isFirstLaunch resolved true on a migrated store whose db_version key had
\* been deleted
C10_Witness ==
  /\ last.op = "isFirstLaunch"
  /\ last.ret.v
  /\ Migrated
  /\ ~VersionPersisted

(***************************************************************************)
(* The migrations on a store that holds rows, whose db_version row the     *)
(* settings functions can overwrite and delete.                            *)
(***************************************************************************)
VersionValues == {JsStr(<<"0">>), JsStr(<<"x">>), JsNum(2)}

NextMigrations ==
  \/ Tick
  \/ RunMigrations
  \/ DropAllTables
  \/ DeleteSetting(DbVersionKey)
  \/ \E v \in VersionValues : SetSetting(DbVersionKey, v)
  \/ SetSetting(<<"c","u","r","r","e","n","c","y">>, JsStr(<<"E","U","R">>))
  \/ CreateCategory(CategoryData(Rent, "", <<>>))
  \/ CreateTransaction(TransactionData(100, Lunch, <<>>, "expense", 1, FALSE, "", ""))
  \/ CreateBudget(BudgetData(1, 1000, "monthly", Day0, <<>>))

SpecMigrations == Init /\ [][NextMigrations]_vars

IndexNames == DOMAIN IndexTable

\* the stored version is absent, or a number not above the target
VersionWithinTarget(w) ==
  DbVersionKey \in DOMAIN w.settings
  => LET v == ParseInt(w.settings[DbVersionKey].value)
     IN  ~v.nan /\ v.n <= DATABASE_VERSION

StoredVersion(s) ==
  IF DbVersionKey \in DOMAIN s THEN ParseInt(s[DbVersionKey].value) ELSE Num(0)

\* C12: no call other than dropAllTables and deleteDatabase removes the
\* db_version row or replaces its value by one that is not a number at
\* least as large, and runMigrations() creates the tables only on a store
\* that has none.
C12_VersionNeverDecreases ==
  [][ /\ (VersionPersisted /\ last'.op \notin {"dropAllTables", "deleteDatabase"})
         => /\ VersionPersisted'
            /\ ~StoredVersion(settings').nan
            /\ ~StoredVersion(settings).nan
               => StoredVersion(settings').n >= StoredVersion(settings).n
      /\ (now' = now /\ last'.op = "runMigrations"
          /\ \E i \in DOMAIN last'.stmts : last'.stmts[i] = "CREATE TABLE")
         => tables = {} ]_vars

(***************************************************************************)
(* Budgets and the ledger they are measured against.  The clock stands at  *)
(* Day0, so a transaction dated Day1 lies after the current date.          *)
(***************************************************************************)
DayBefore == <<"2","0","2","4","-","0","1","-","0","9">>

LedgerInputs ==
  { TransactionData(100, Lunch, <<>>, "expense", 1, FALSE, "", ""),
    TransactionData(1200, Lunch, Day1, "expense", 1, FALSE, "", ""),
    TransactionData(250, Lunch, Day0, "income", 1, FALSE, "", ""),
    TransactionData(100, Lunch, Day0, "expense", 2, FALSE, "", ""),
    TransactionData(250, Lunch, DayBefore, "expense", 1, FALSE, "", "") }

\* the (startDate, endDate) arguments, <<>> for one not given
Windows ==
  { <<<<>>, <<>>>>, <<DayBefore, Day1>>, <<Day0, Day0>>, <<<<>>, Day1>>,
    <<Day1, <<>>>> }

NextProgress ==
  \/ RunMigrations
  \/ CreateCategory(CategoryData(Rent, "", <<>>))
  \/ CreateCategory(CategoryData(Salary, "", <<>>))
  \/ \E d \in ValidBudgetInputs : CreateBudget(d)
  \/ \E d \in LedgerInputs : CreateTransactionWithin(d, MaxLedgerRows)
  \/ \E i \in BudgetIds, win \in Windows : GetBudgetProgress(i, win[1], win[2])

SpecProgress == Init /\ [][NextProgress]_vars

\* the sum of the amounts of the rows S
RECURSIVE Total(_)
Total(S) ==
  IF S = {} THEN 0
  ELSE LET x == CHOOSE y \in S : TRUE IN x.amount + Total(S \ {x})

\* the transactions that count for budget b between from and to
Counted(b, from, to) ==
  {t \in transactions : /\ t.type = "expense"
                        /\ t.category_id = b.category_id
                        /\ StrLeq(from, t.date)
                        /\ StrLeq(t.date, to)}

\* C13: for every stored budget and every window, getBudgetProgress
\* resolves with spent the sum of the expense transactions of the budget's
\* category dated within [periodStart, periodEnd], both ends included,
\* periodStart being startDate or else the budget's start_date and
\* periodEnd being endDate or else the current date; remaining is
\* amount - spent and is_exceeded is spent > amount.
C13_ProgressSums ==
  \A b \in budgets, win \in Windows :
    LET r == getBudgetProgress(World, b.id, win[1], win[2])
        from == IF win[1] = <<>> THEN b.start_date ELSE win[1]
        to == IF win[2] = <<>> THEN Today ELSE win[2]
        spent == Total(Counted(b, from, to))
    IN  /\ r.ok
        /\ r.ret.period_start = from
        /\ r.ret.period_end = to
        /\ r.ret.budget_amount = b.amount
        /\ r.ret.spent = spent
        /\ r.ret.remaining = b.amount - spent
        /\ r.ret.is_exceeded = (spent > b.amount)

\* a progress was computed whose budget is exceeded, while the ledger holds
\* a transaction that does not count for it
C13_Witness ==
  /\ last.op = "getBudgetProgress"
  /\ last.ok
  /\ last.ret.is_exceeded
  /\ last.ret.spent = 1200
  /\ \E t \in transactions : t.type = "income" \/ t.date = DayBefore

(***************************************************************************)
(* The status callers derive from a progress.  The layer has no function   *)
(* for it; it is taken from the specification's thresholds, applied to     *)
(* the reported percentage (in hundredths of a percent).                   *)
(***************************************************************************)
getStatus(percentage) ==
  IF percentage < 8000 THEN "on-track"
  ELSE IF percentage < 10000 THEN "warning"
  ELSE "exceeded"

ThresholdBudgets ==
  { BudgetData(1, 10000, "monthly", Day0, <<>>),
    BudgetData(1, 300, "monthly", Day0, <<>>) }

ThresholdAmounts == {1, 2, 239, 7999, 8000, 10000}

NextThresholds ==
  \/ RunMigrations
  \/ CreateCategory(CategoryData(Rent, "", <<>>))
  \/ \E d \in ThresholdBudgets : CreateBudget(d)
  \/ \E a \in ThresholdAmounts :
       CreateTransactionWithin(
         TransactionData(a, Lunch, Day0, "expense", 1, FALSE, "", ""),
         MaxLedgerRows)
  \/ \E i \in BudgetIds : DeleteBudget(i)
  \/ \E i \in BudgetIds : GetBudgetProgress(i, <<>>, <<>>)

SpecThresholds == Init /\ [][NextThresholds]_vars

DayAfter == <<"2","0","2","4","-","0","1","-","1","2">>

ActiveBudgetInputs ==
  { BudgetData(1, 1000, "monthly", Day0, <<>>),
    BudgetData(2, 500, "weekly", Day0, Day1),
    BudgetData(1, 700, "weekly", Day1, Day1) }

\* the date argument, <<>> for none
CheckDates == {<<>>, DayBefore, Day0, Day1, DayAfter}

NextBudgets ==
  \/ Tick
  \/ RunMigrations
  \/ CreateCategory(CategoryData(Rent, "", <<>>))
  \/ CreateCategory(CategoryData(Salary, "", <<>>))
  \/ \E d \in ActiveBudgetInputs : CreateBudgetWithin(d, MaxBudgetRows)
  \/ \E date \in CheckDates : GetActiveBudgets(date)

SpecBudgets == Init /\ [][NextBudgets]_vars

\* the budget columns of a row returned with the category's columns joined
BudgetOf(row) ==
  [id |-> row.id, category_id |-> row.category_id, amount |-> row.amount,
   period |-> row.period, start_date |-> row.start_date,
   end_date |-> row.end_date, created_at |-> row.created_at,
   updated_at |-> row.updated_at]

Range(s) == {s[i] : i \in DOMAIN s}

\* C15: getActiveBudgets(date) resolves with exactly the stored budgets
\* whose start_date <= date and whose end_date is null or >= date, each
\* once, date being the argument or else the current date.
C15_ActiveBudgets ==
  Migrated =>
    \A date \in CheckDates :
      LET r == getActiveBudgets(World, date)
          day == IF date = <<>> THEN Today ELSE date
          active == {b \in budgets :
                       /\ StrLeq(b.start_date, day)
                       /\ (b.end_date = Null \/ StrLeq(day, b.end_date))}
      IN  /\ r.ok
          /\ r.ret.lists # {}
          /\ \A list \in r.ret.lists :
               /\ {BudgetOf(list[i]) : i \in DOMAIN list} = active
               /\ Len(list) = Cardinality(active)

\* a getActiveBudgets returned one budget of the two stored, the other
\* having ended before the date or starting after it
C15_Witness ==
  /\ last.op = "getActiveBudgets"
  /\ last.ok
  /\ Len(last.ret.list) = 1
  /\ Cardinality(budgets) = 2
  /\ \E b \in budgets : b.end_date # Null


(***************************************************************************)
(* The reports over the ledger: the summary of a window and the spending   *)
(* by category.  The ledger holds income and expenses of a shared          *)
(* category, expenses without a category, and dates on both sides of the   *)
(* windows.                                                                *)
(***************************************************************************)
ReportInputs ==
  LedgerInputs
    \cup { TransactionData(300, Lunch, Day0, "expense", 0, FALSE, "", "") }

\* the (startDate, endDate) arguments; the last window holds no date
ReportWindows ==
  { <<DayBefore, Day1>>, <<Day0, Day0>>, <<Day0, Day1>>, <<Day1, DayBefore>> }

NextReports ==
  \/ RunMigrations
  \/ CreateCategory(CategoryData(Rent, "", <<>>))
  \/ CreateCategory(CategoryData(Salary, "", <<>>))
  \/ \E d \in ReportInputs : CreateTransactionWithin(d, MaxLedgerRows)
  \/ \E win \in ReportWindows : GetTransactionSummary(win[1], win[2])
  \/ \E win \in ReportWindows : GetSpendingByCategory(win[1], win[2])

SpecReports == Init /\ [][NextReports]_vars

\* the transactions dated between from and to, both ends included
Within(from, to) ==
  {t \in transactions : StrLeq(from, t.date) /\ StrLeq(t.date, to)}

OfType(S, type) == {t \in S : t.type = type}

\* C16: on a migrated store, for every window, getTransactionSummary
\* resolves with total_income the sum of the income amounts, total_expense
\* the sum of the expense amounts and total_count the number of rows, over
\* exactly the transactions with start <= date <= end, and with balance =
\* total_income - total_expense; for a window that holds no transaction
\* the four values are the number 0.
C16_Summary ==
  Migrated =>
    \A win \in ReportWindows :
      LET r == getTransactionSummary(World, win[1], win[2])
          S == Within(win[1], win[2])
      IN  /\ r.ok
          /\ r.ret.total_income = Total(OfType(S, "income"))
          /\ r.ret.total_expense = Total(OfType(S, "expense"))
          /\ r.ret.total_count = Cardinality(S)
          /\ r.ret.balance = Total(OfType(S, "income"))
                             - Total(OfType(S, "expense"))
          /\ S = {} => r.ret = [total_income |-> 0, total_expense |-> 0,
                                balance |-> 0, total_count |-> 0]

\* a summary was computed over a window that holds an income and an expense
C16_Witness ==
  /\ last.op = "getTransactionSummary"
  /\ last.ok
  /\ last.ret.total_count = 2
  /\ last.ret.total_income = 250
  /\ last.ret.total_expense = 100
  /\ last.ret.balance = 150

\* the expenses of category c dated between from and to
Spending(c, from, to) ==
  {t \in OfType(Within(from, to), "expense") : t.category_id = c.id}

\* C17: on a migrated store, for every window, every array
\* getSpendingByCategory may return has one entry per category that has at
\* least one expense in the window and no other entry; the entry's
\* total_amount and transaction_count are the sum and the count of the
\* expense transactions of that category in the window, income rows of the
\* category left out; the entries are in descending order of total_amount.
C17_SpendingByCategory ==
  Migrated =>
    \A win \in ReportWindows :
      LET r == getSpendingByCategory(World, win[1], win[2])
          spenders == {c \in categories : Spending(c, win[1], win[2]) # {}}
      IN  /\ r.ok
          /\ r.ret.lists # {}
          /\ \A list \in r.ret.lists :
               /\ Len(list) = Cardinality(spenders)
               /\ {e.id : e \in Range(list)} = {c.id : c \in spenders}
               /\ \A e \in Range(list) :
                    \E c \in spenders :
                      /\ e.id = c.id
                      /\ e.name = c.name
                      /\ e.total_amount =
                           Total(Spending(c, win[1], win[2]))
                      /\ e.transaction_count =
                           Cardinality(Spending(c, win[1], win[2]))
               /\ \A i, j \in 1..Len(list) :
                    i < j => list[i].total_amount >= list[j].total_amount

\* a spending report of two categories was returned, the larger total first
C17_Witness ==
  /\ last.op = "getSpendingByCategory"
  /\ last.ok
  /\ Len(last.ret.list) = 2
  /\ last.ret.list[1].total_amount = 1200
  /\ last.ret.list[2].total_amount = 100

(***************************************************************************)
(* The listing of the ledger as time passes, so that rows of one date      *)
(* differ in their creation time.                                          *)
(***************************************************************************)
ListingInputs ==
  { TransactionData(100, Lunch, Day0, "expense", 1, FALSE, "", ""),
    TransactionData(250, Lunch, Day0, "income", 1, FALSE, "", ""),
    TransactionData(100, Lunch, Day1, "expense", 0, FALSE, "", "") }

Filters(startDate, endDate, category_id, type, limit, offset) ==
  [startDate |-> startDate, endDate |-> endDate,
   category_id |-> category_id, type |-> type, limit |-> limit,
   offset |-> offset]

\* the filters of the calls: none, each kind of predicate, and pages
FilterInputs ==
  { Filters(<<>>, <<>>, 0, "", JsUndefined, JsUndefined),
    Filters(Day0, Day0, 1, "expense", JsUndefined, JsUndefined),
    Filters(Day1, <<>>, 0, "", JsNum(1), JsUndefined),
    Filters(<<>>, <<>>, 0, "", JsNum(1), JsNum(1)),
    Filters(<<>>, <<>>, 0, "", JsNum(0), JsUndefined),
    Filters(<<>>, <<>>, 0, "income", JsNum(0), JsNum(1)) }

NextListing ==
  \/ Tick
  \/ RunMigrations
  \/ CreateCategory(CategoryData(Rent, "", <<>>))
  \/ \E d \in ListingInputs : CreateTransactionWithin(d, MaxLedgerRows)
  \/ \E f \in FilterInputs : GetAllTransactions(f)

SpecListing == Init /\ [][NextListing]_vars

\* every combination of the predicates with a limit, with a limit and an
\* offset, or with neither
PagedFilters ==
  {f \in {Filters(s, e, c, t, l, o) :
            s \in {<<>>, Day0, Day1}, e \in {<<>>, Day0}, c \in {0, 1},
            t \in {"", "expense"},
            l \in {JsUndefined, JsNum(0), JsNum(1), JsNum(2)},
            o \in {JsUndefined, JsNum(0), JsNum(1)}} :
     f.limit = JsUndefined => f.offset = JsUndefined}

\* the transactions that satisfy every predicate filters supplies
Selected(filters) ==
  {t \in transactions :
     /\ filters.startDate # <<>> => StrLeq(filters.startDate, t.date)
     /\ filters.endDate # <<>> => StrLeq(t.date, filters.endDate)
     /\ filters.category_id # 0 => t.category_id = filters.category_id
     /\ filters.type # "" => t.type = filters.type}

\* the arrangements of the rows S by date descending, then created_at
\* descending
ByDateThenCreation(S) ==
  {s \in [1..Cardinality(S) -> S] :
     \A i, j \in 1..Cardinality(S) :
       i < j => /\ s[i] # s[j]
                /\ StrLeq(s[j].date, s[i].date)
                /\ s[j].date = s[i].date
                     => StrLeq(s[j].created_at, s[i].created_at)}

\* positions O .. O+L-1 of the list s, counted from 0; the whole of s when
\* no limit is supplied, O = 0 when no offset is
Positions(s, filters) ==
  IF filters.limit = JsUndefined THEN s
  ELSE SubSeq(s, filters.offset.n + 1,
              IF filters.offset.n + filters.limit.n < Len(s)
              THEN filters.offset.n + filters.limit.n ELSE Len(s))

\* list holds the rows of whole, each with its stored columns
SameRows(list, whole) ==
  /\ Len(list) = Len(whole)
  /\ \A i \in 1..Len(list) :
       [k \in DOMAIN whole[i] |-> list[i][k]] = whole[i]

\* C18: on a migrated store, for all filters, getAllTransactions resolves
\* and every array it may return holds exactly the transactions that satisfy
\* every supplied predicate (date >= startDate, date <= endDate, category_id
\* equal, type equal), by date descending and then created_at descending;
\* with limit L and offset O it holds positions O .. O+L-1 of that list.
C18_Listing ==
  Migrated =>
    \A f \in PagedFilters :
      LET r == getAllTransactions(World, f)
      IN  /\ r.ok
          /\ r.ret.lists # {}
          /\ \A list \in r.ret.lists :
               \E whole \in ByDateThenCreation(Selected(f)) :
                 SameRows(list, Positions(whole, f))

(***************************************************************************)
(* The settings store as a map from key to string.                         *)
(***************************************************************************)
Blank == <<" ">>

\* the keys and values of the calls: SettingKeys and SettingValues, a key
\* of white space only, and values of the other types
MapKeys == SettingKeys \cup {Blank}
MapValues == SettingValues \cup {JsUndefined, JsBool(TRUE), JsStr(<<>>)}

\* what String(v) is for the values of MapValues that are neither null nor
\* undefined
Text ==
  (JsStr(<<"0">>) :> <<"0">>) @@ (JsStr(<<"x">>) :> <<"x">>)
    @@ (JsNum(2) :> <<"2">>) @@ (JsStr(<<"E","U","R">>) :> <<"E","U","R">>)
    @@ (JsBool(TRUE) :> <<"t","r","u","e">>) @@ (JsStr(<<>>) :> <<>>)

\* what getSetting(k) resolves with in the store w
Lookup(w, k) == getSetting(w, k).ret

\* C19: on a store that has its settings table, for every key k and value
\* v: setSetting(k, v) with an empty (or blank) key or a null or undefined
\* value rejects and changes nothing; otherwise it resolves, getSetting(k)
\* then returns String(v) whether or not k was stored before, and every
\* other key reads as before.  deleteSetting(k) resolves, getSetting(k)
\* then returns null, every other key reads as before, and when k was
\* absent nothing has changed.
C19_SettingsMap ==
  "settings" \in tables =>
    \A k \in MapKeys :
      /\ \A v \in MapValues :
           LET s == setSetting(World, k, v)
           IN  IF k \in {<<>>, Blank} \/ v \in {JsNull, JsUndefined}
               THEN ~s.ok /\ Rows(s.w) = Rows(World)
               ELSE /\ s.ok
                    /\ getSetting(s.w, k).ok
                    /\ Lookup(s.w, k) = [v |-> Text[v]]
                    /\ \A o \in MapKeys \ {k} :
                         Lookup(s.w, o) = Lookup(World, o)
                    /\ DOMAIN s.w.settings = DOMAIN settings \cup {k}
      /\ LET d == deleteSetting(World, k)
         IN  /\ d.ok
             /\ getSetting(d.w, k).ok
             /\ Lookup(d.w, k) = [v |-> Null]
             /\ \A o \in MapKeys \ {k} : Lookup(d.w, o) = Lookup(World, o)
             /\ k \notin DOMAIN settings => Rows(d.w) = Rows(World)

\* setSetting has stored the string of a number under a key, beside another
\* key
C19_Witness ==
  /\ last.op = "setSetting"
  /\ last.ok
  /\ last.ret.value = <<"2">>
  /\ last.ret.key \in DOMAIN settings
  /\ settings[last.ret.key].value = <<"2">>
  /\ Cardinality(DOMAIN settings) > 1

\* C20: in every state, for every key, getSettingWithDefault(key, fallback)
\* resolves: with the stored value when the key exists, with the fallback
\* when it is absent, and with the fallback when the read fails because
\* the settings table was dropped or the store deleted.
C20_NeverRejects ==
  \A k \in MapKeys :
    LET r == getSettingWithDefault(World, k, Fallback)
        read == getSetting(World, k)
    IN  /\ r.ok
        /\ r.ret.v = IF k \in DOMAIN settings THEN settings[k].value
                     ELSE Fallback
        /\ "settings" \notin tables => ~read.ok /\ r.ret.v = Fallback

\* getSettingWithDefault resolved with the fallback after its read had
\* failed on a store without the settings table
C20_Witness ==
  /\ last.op = "getSettingWithDefault"
  /\ last.ok
  /\ last.ret.v = Fallback
  /\ last.stmts = <<"SELECT value FROM settings">>
  /\ "settings" \notin tables

(***************************************************************************)
(* Failing statements: calls of every store on a schema of which tables    *)
(* have been dropped, and calls that break a constraint.                   *)
(***************************************************************************)
Currency == <<"c","u","r","r","e","n","c","y">>
Euro == JsStr(<<"E","U","R">>)
NoFilters == [startDate |-> <<>>, endDate |-> <<>>, category_id |-> 0,
              type |-> "", limit |-> JsUndefined, offset |-> JsUndefined]

NextFailures ==
  \/ RunMigrations
  \/ DropAllTables
  \/ \E t \in {"categories", "settings"} : ExecuteSql("DROP TABLE", t)
  \/ IsFirstLaunch
  \/ SeedDefaultCategories
  \/ GetSetting(Currency)
  \/ SetSetting(Currency, Euro)
  \/ DeleteSetting(Currency)
  \/ GetSettingWithDefault(Currency, Fallback)
  \/ CreateCategory(CategoryData(Rent, "", <<>>))
  \/ UpdateCategory(1, CategoryData(Salary, "", <<>>))
  \/ DeleteCategory(1)
  \/ CreateTransaction(TransactionData(100, Lunch, Day0, "expense", 1, FALSE,
                                       "", ""))
  \/ UpdateTransaction(1, TransactionData(250, Lunch, Day0, "expense",
                                          MissingId, FALSE, "", ""))
  \/ DeleteTransaction(1)
  \/ CreateBudget(BudgetData(1, 1000, "monthly", Day0, <<>>))
  \/ UpdateBudget(1, BudgetData(1, 500, "monthly", Day0, <<>>))
  \/ DeleteBudget(1)
  \/ GetBudgetProgress(1, <<>>, <<>>)
  \/ GetActiveBudgets(<<>>)
  \/ GetTransactionSummary(Day0, Day0)
  \/ GetSpendingByCategory(Day0, Day0)
  \/ GetAllTransactions(NoFilters)

SpecFailures == Init /\ [][NextFailures]_vars

\* the failures thrown by the statements of the last call
Failures == {last.failures[i] : i \in DOMAIN last.failures}

\* the message under which a failure reaches the caller: createCategory and
\* updateCategory translate the UNIQUE failure
Translated(msg) ==
  IF msg = "UNIQUE constraint failed" THEN "already exists" ELSE msg

\* the failure f is one that the call op catches without throwing again:
\* any failure in getSettingWithDefault, the failed read of db_version in
\* the calls that read the version, and the insert of a catalog name that
\* exists in the calls that seed
Absorbed(op, f) ==
  \/ op = "getSettingWithDefault"
  \/ /\ op \in {"isFirstLaunch", "runMigrations", "initializeDatabase"}
     /\ f.q = "SELECT value FROM settings"
     /\ f.key = DbVersionKey
  \/ /\ op \in {"seedDefaultCategories", "initializeDatabase"}
     /\ f.q = "INSERT INTO categories"
     /\ f.msg = "UNIQUE constraint failed"

\* C21: a call, other than getSettingWithDefault, during which a statement
\* failed is rejected, with that failure or its translation; isFirstLaunch
\* and the version read inside runMigrations included.
C21_FailuresPropagate ==
  (last.failures # <<>> /\ last.op # "getSettingWithDefault")
    => /\ ~last.ok
       /\ last.err.msg \in {Translated(f.msg) : f \in Failures}

\* C21, amended: a call during which a statement failed that the call does
\* not absorb is rejected with the last failure or its translation.  What
\* is absorbed: every failure in getSettingWithDefault; the failed read of
\* db_version, which counts as version 0, so that isFirstLaunch resolves
\* with true and runMigrations goes on to create the schema; and the
\* insert of a catalog name that exists, which seedDefaultCategories skips.
\* A call all of whose failures are absorbed is not rejected.
C21_UnabsorbedFailuresPropagate ==
  /\ (\E f \in Failures : ~Absorbed(last.op, f))
       => /\ ~last.ok
          /\ last.err.msg
               = Translated(last.failures[Len(last.failures)].msg)
  /\ (last.failures # <<>> /\ \A f \in Failures : Absorbed(last.op, f))
       => last.ok
  /\ (last.op = "isFirstLaunch" /\ last.failures # <<>>) => last.ret.v

\* a call of a store was rejected with the failure of its statement
C21_Witness ==
  /\ last.op = "deleteCategory"
  /\ ~last.ok
  /\ Len(last.failures) = 1
  /\ last.err.msg = "no such table"

\* runMigrations resolved although its read of the version had failed
C21_AbsorbedWitness ==
  /\ last.op = "runMigrations"
  /\ last.ok
  /\ last.failures # <<>>

(***************************************************************************)
(* Default settings.                                                       *)
(***************************************************************************)
\* the value DEFAULT_SETTINGS gives the key k
DefaultOf(k) ==
  LET i == CHOOSE j \in 1..Len(DEFAULT_SETTINGS) : DEFAULT_SETTINGS[j].key = k
  IN  DEFAULT_SETTINGS[i].value

\* the number of writes to the settings table among the statements of w
SettingWrites(w) ==
  Cardinality({i \in 1..Len(w.log) :
                 w.log[i] = "INSERT OR REPLACE INTO settings"})

\* C22: on a store that has its settings table, initializeDefaultSettings()
\* resolves; a key that was present, default or not, keeps its row; a
\* default key that was absent ends with its default value; no other key
\* appears; one write is issued per absent default key; and a second run
\* right after the first issues no write and changes nothing.
C22_DefaultsOnlyForAbsentKeys ==
  "settings" \in tables =>
    LET r == initializeDefaultSettings(World)
        again == initializeDefaultSettings(r.w)
    IN  /\ r.ok
        /\ DOMAIN r.w.settings = DOMAIN settings \cup DefaultKeys
        /\ \A k \in DOMAIN settings : r.w.settings[k] = settings[k]
        /\ \A k \in DefaultKeys \ DOMAIN settings :
             r.w.settings[k].value = DefaultOf(k)
        /\ SettingWrites(r.w) = Cardinality(DefaultKeys \ DOMAIN settings)
        /\ again.ok
        /\ again.w.settings = r.w.settings
        /\ SettingWrites(again.w) = SettingWrites(r.w)

\* initializeDefaultSettings ran on a store whose currency had been set to
\* EUR: the currency is still EUR and the absent theme got its default
C22_Witness ==
  /\ last.op = "initializeDefaultSettings"
  /\ last.ok
  /\ Currency \in DOMAIN settings
  /\ settings[Currency].value = <<"E","U","R">>
  /\ settings[<<"t","h","e","m","e">>].value = <<"l","i","g","h","t">>
  /\ Len(last.stmts) = 7

(***************************************************************************)
(* Seeding the catalog again.                                              *)
(***************************************************************************)
\* the rows of w that hold the name n
Holding(w, n) == {c \in w.categories : c.name = n}

\* the names of the rows of w
NamesOf(w) == {c.name : c \in w.categories}

\* C23: on a store that has its categories table, whatever catalog names
\* it already holds, seedDefaultCategories() resolves; afterwards every
\* catalog name is held by exactly one row; the rows that were there are
\* unchanged; the rows it inserted are the rows it returns, one per catalog
\* name that was missing, each with is_default = 1; and a second run right
\* after resolves with the empty list and inserts nothing.
C23_SeedingRerunnable ==
  "categories" \in tables =>
    LET r == seedDefaultCategories(World)
        again == seedDefaultCategories(r.w)
        returned == {r.ret.v[i] : i \in 1..Len(r.ret.v)}
    IN  /\ r.ok
        /\ \A n \in CatalogNames : Cardinality(Holding(r.w, n)) = 1
        /\ categories \subseteq r.w.categories
        /\ returned = r.w.categories \ categories
        /\ {c.name : c \in returned} = CatalogNames \ NamesOf(World)
        /\ Len(r.ret.v) = Cardinality(CatalogNames \ NamesOf(World))
        /\ \A c \in returned : c.is_default = 1
        /\ again.ok
        /\ again.ret.v = <<>>
        /\ again.w.categories = r.w.categories

\* seedDefaultCategories ran on a store that already held a Salary row
\* created by hand: it resolved with the ten other rows, and Salary is
\* still the one row that is not a default
C23_Witness ==
  /\ last.op = "seedDefaultCategories"
  /\ last.ok
  /\ Len(last.ret.v) = 10
  /\ \E c \in categories : c.name = Salary /\ c.is_default = 0
  /\ \A n \in CatalogNames : Cardinality(Holding(World, n)) = 1

(***************************************************************************)
(* Created records.                                                        *)
(***************************************************************************)
\* the columns of the fetched row g that the created record r has
SameValues(r, g) == g.ok /\ [f \in DOMAIN r.ret |-> g.ret[f]] = r.ret

\* C24: in every state of a migrated store, for every input that passes
\* validation: createCategory with a name no row holds, createTransaction
\* (with a category the engine accepts) and createBudget with a category
\* that exists resolve with a record whose id no existing row of the table
\* has and whose fields are the trimmed and defaulted input: name and
\* description trimmed, an absent date today, an absent source 'manual',
\* absent flags 0, absent icon, color, category_id, raw_data and end_date
\* null; and getById(id) right after returns the same values.
C24_CreatedRecord ==
  {"categories", "transactions", "budgets"} \subseteq tables =>
    /\ \A d \in ValidCategoryInputs :
         LET r == createCategory(World, d)
         IN  /\ (Trim(d.name) \notin NamesOf(World)) => r.ok
             /\ r.ok =>
                  /\ r.ret.id \notin {c.id : c \in categories}
                  /\ r.ret.name = Trim(d.name)
                  /\ r.ret.icon = IF d.icon = "" THEN NullStr ELSE d.icon
                  /\ r.ret.color = IF d.color = <<>> THEN Null ELSE d.color
                  /\ r.ret.is_default = 0
                  /\ SameValues(r, getCategoryById(r.w, r.ret.id))
    /\ \A d \in ValidTransactionInputs :
         LET r == createTransaction(World, d)
         IN  /\ ~FkMissingParent(World, d.category_id) => r.ok
             /\ r.ok =>
                  /\ r.ret.id \notin {t.id : t \in transactions}
                  /\ r.ret.amount = d.amount
                  /\ r.ret.description = Trim(d.description)
                  /\ r.ret.date = IF d.date = <<>> THEN Today ELSE d.date
                  /\ r.ret.type = d.type
                  /\ r.ret.category_id =
                       IF d.category_id = 0 THEN NullId ELSE d.category_id
                  /\ r.ret.is_manually_set =
                       IF d.is_manually_set THEN 1 ELSE 0
                  /\ r.ret.source = IF d.source = "" THEN "manual"
                                    ELSE d.source
                  /\ r.ret.raw_data = IF d.raw_data = "" THEN NullStr
                                      ELSE d.raw_data
                  /\ SameValues(r, getTransactionById(r.w, r.ret.id))
    /\ \A d \in ValidBudgetInputs :
         LET r == createBudget(World, d)
         IN  /\ (\E c \in categories : c.id = d.category_id) => r.ok
             /\ r.ok =>
                  /\ r.ret.id \notin {b.id : b \in budgets}
                  /\ r.ret.category_id = d.category_id
                  /\ r.ret.amount = d.amount
                  /\ r.ret.period = d.period
                  /\ r.ret.start_date = d.start_date
                  /\ r.ret.end_date = IF d.end_date = <<>> THEN Null
                                      ELSE d.end_date
                  /\ SameValues(r, getBudgetById(r.w, r.ret.id))

\* createTransaction resolved for an input without date, source, category
\* and raw data: the record and the stored row carry the defaults
C24_Witness ==
  /\ last.op = "createTransaction"
  /\ last.ok
  /\ last.ret.date = Today
  /\ last.ret.source = "manual"
  /\ last.ret.category_id = NullId
  /\ last.ret.raw_data = NullStr
  /\ \E t \in transactions :
       /\ t.id = last.ret.id
       /\ [f \in DOMAIN last.ret |-> t[f]] = last.ret

(***************************************************************************)
(* The connection under calls that overlap.  An async function runs up to  *)
(* an await and goes on when the awaited promise settles; between the two  *)
(* any other call may start or go on.  conn.queries are the executeSql     *)
(* calls made so far, conn.close and conn.delete one closeDatabase and one *)
(* deleteDatabase call; conn.live are the handles the driver holds open,   *)
(* conn.made counts the SQLite.openDatabase calls, each giving its own     *)
(* handle.                                                                 *)
(***************************************************************************)
MaxCalls == 2

\* a closeDatabase or deleteDatabase call is between its first await and
\* its resolution
Resetting ==
  \/ conn.close.pc = "closing"
  \/ conn.delete.pc \in {"closing", "closed", "deleting"}

\* when a call starts: before any reset, during one, or after
Phase ==
  IF Resetting THEN "during"
  ELSE IF conn.close.pc = "resolved" \/ conn.delete.pc = "resolved"
  THEN "after" ELSE "before"

StoreUnchanged ==
  UNCHANGED <<fk, now, tables, indexes, categories, transactions, budgets,
              settings, seq, last, calls>>

\* executeSql up to `await openDatabase()`: openDatabase returns the cached
\* handle, or calls SQLite.openDatabase and waits for it
ExecuteSqlStart ==
  /\ Len(conn.queries) < MaxCalls
  /\ IF db # NoHandle
     THEN /\ conn' = [conn EXCEPT !.queries =
                        Append(@, [pc |-> "opened", handle |-> db,
                                   issued |-> FALSE, phase |-> Phase])]
          /\ UNCHANGED opens
     ELSE /\ conn' = [conn EXCEPT !.made = @ + 1, !.queries =
                        Append(@, [pc |-> "opening", handle |-> conn.made + 1,
                                   issued |-> TRUE, phase |-> Phase])]
          /\ opens' = opens + 1
  /\ UNCHANGED db
  /\ StoreUnchanged

\* `db = await SQLite.openDatabase(...)` goes on: the handle is cached
OpenResolves(i) ==
  /\ conn.queries[i].pc = "opening"
  /\ db' = conn.queries[i].handle
  /\ conn' = [conn EXCEPT !.queries[i].pc = "opened",
                          !.live = @ \cup {conn.queries[i].handle}]
  /\ UNCHANGED opens
  /\ StoreUnchanged

\* what the driver may do with a statement on handle h: run it, or refuse
\* it because the handle is closed; on a handle whose close() is pending
\* either
Outcomes(h) ==
  IF h \notin conn.live THEN {"refused"}
  ELSE IF "closing" \in {conn.close.pc, conn.delete.pc}
          /\ h \in {conn.close.handle, conn.delete.handle}
  THEN {"ran", "refused"}
  ELSE {"ran"}

\* `await database.executeSql(query, params)` with CREATE TABLE IF NOT
\* EXISTS settings
StatementSettles(i) ==
  /\ conn.queries[i].pc = "opened"
  /\ \E o \in Outcomes(conn.queries[i].handle) :
       /\ conn' = [conn EXCEPT !.queries[i].pc = o]
       /\ IF o = "ran"
          THEN Commit(Engine(World, "CREATE TABLE", "settings").w)
          ELSE UNCHANGED <<db, opens, tables, indexes, categories,
                           transactions, budgets, settings, seq>>
  /\ UNCHANGED <<fk, now, last, calls>>

\* closeDatabase up to `await db.close()`; with no cached handle it returns
CloseStart(c) ==
  IF db # NoHandle THEN [pc |-> "closing", handle |-> db]
  ELSE [pc |-> c, handle |-> NoHandle]

CloseDatabaseStart ==
  /\ conn.close.pc = "idle"
  /\ conn' = [conn EXCEPT !.close = CloseStart("resolved")]
  /\ UNCHANGED <<db, opens>>
  /\ StoreUnchanged

\* `await db.close(); db = null`
CloseDatabaseResolves ==
  /\ conn.close.pc = "closing"
  /\ conn' = [conn EXCEPT !.close.pc = "resolved",
                          !.live = @ \ {conn.close.handle}]
  /\ db' = NoHandle
  /\ opens' = 0
  /\ StoreUnchanged

\* deleteDatabase up to `await closeDatabase()`
DeleteDatabaseStart ==
  /\ conn.delete.pc = "idle"
  /\ conn' = [conn EXCEPT !.delete = CloseStart("closed")]
  /\ UNCHANGED <<db, opens>>
  /\ StoreUnchanged

\* the closeDatabase inside deleteDatabase goes on after db.close()
DeleteDatabaseCloses ==
  /\ conn.delete.pc = "closing"
  /\ conn' = [conn EXCEPT !.delete.pc = "closed",
                          !.live = @ \ {conn.delete.handle}]
  /\ db' = NoHandle
  /\ opens' = 0
  /\ StoreUnchanged

\* deleteDatabase goes on to `await SQLite.deleteDatabase(...)`
DeleteDatabaseIssues ==
  /\ conn.delete.pc = "closed"
  /\ conn' = [conn EXCEPT !.delete.pc = "deleting"]
  /\ UNCHANGED <<db, opens>>
  /\ StoreUnchanged

\* SQLite.deleteDatabase settles: the store file is gone
DeleteDatabaseResolves ==
  /\ conn.delete.pc = "deleting"
  /\ conn' = [conn EXCEPT !.delete.pc = "resolved"]
  /\ tables' = {}
  /\ indexes' = {}
  /\ categories' = {}
  /\ transactions' = {}
  /\ budgets' = {}
  /\ settings' = EmptySettings
  /\ seq' = SeqZero
  /\ UNCHANGED <<db, opens, fk, now, last, calls>>

NextConnection ==
  \/ ExecuteSqlStart
  \/ \E i \in 1..MaxCalls : i <= Len(conn.queries) /\ OpenResolves(i)
  \/ \E i \in 1..MaxCalls : i <= Len(conn.queries) /\ StatementSettles(i)
  \/ CloseDatabaseStart
  \/ CloseDatabaseResolves
  \/ DeleteDatabaseStart
  \/ DeleteDatabaseCloses
  \/ DeleteDatabaseIssues
  \/ DeleteDatabaseResolves

SpecConnection == Init /\ [][NextConnection]_vars

\* the executeSql calls made so far
Queries == {conn.queries[i] : i \in 1..Len(conn.queries)}

\* C26: while no closeDatabase or deleteDatabase has been called, however
\* many executeSql calls start before the first open has resolved,
\* SQLite.openDatabase is called at most once, every call holds the same
\* handle, and once a call has its handle that handle is the cached one.
C26_OpenedOnce ==
  (conn.close.pc = "idle" /\ conn.delete.pc = "idle") =>
    /\ conn.made <= 1
    /\ \A q1, q2 \in Queries : q1.handle = q2.handle
    /\ \A q \in Queries : q.pc # "opening" => db = q.handle

\* C27: an executeSql call that starts while closeDatabase or
\* deleteDatabase is in progress never runs its statement and opens no
\* handle; and when the reset has resolved and no call has started since,
\* no handle is cached.
C27_ResetIsolated ==
  /\ \A q \in Queries : q.phase = "during" => q.pc # "ran" /\ ~q.issued
  /\ (Phase = "after" /\ \A q \in Queries : q.phase # "after")
       => db = NoHandle

(***************************************************************************)
(* deleteCategory and createBudget statement by statement: each goes on    *)
(* from one await to the next, and between two of its statements the       *)
(* other calls of the stores run theirs.                                   *)
(***************************************************************************)
\* one statement of a call in flight has settled with outcome r
Awaits(r) ==
  /\ Commit(r.w)
  /\ UNCHANGED <<fk, now, last, conn>>

\* the count a SELECT COUNT(*) returned
CountOf(r) == (CHOOSE x \in r.rows : TRUE).count

\* deleteCategory(id) up to the settling of `await getCategoryById(id)`
DeleteCategoryStart(id) ==
  LET existing == getCategoryById(World, id)
  IN  /\ calls.del.pc = "idle"
      /\ calls' = [calls EXCEPT !.del.id = id, !.del.pc =
                     IF existing.ok /\ existing.ret.found THEN "found"
                     ELSE "rejected"]
      /\ Awaits(existing)

\* ... SELECT COUNT(*) FROM transactions WHERE category_id = ?
DeleteCategoryCountsTransactions ==
  LET tc == executeSql(World, "SELECT COUNT(*) FROM transactions",
                       calls.del.id)
  IN  /\ calls.del.pc = "found"
      /\ calls' = [calls EXCEPT !.del.pc =
                     IF tc.ok /\ CountOf(tc) = 0 THEN "noTransactions"
                     ELSE "rejected"]
      /\ Awaits(tc)

\* ... SELECT COUNT(*) FROM budgets WHERE category_id = ?
DeleteCategoryCountsBudgets ==
  LET bc == executeSql(World, "SELECT COUNT(*) FROM budgets", calls.del.id)
  IN  /\ calls.del.pc = "noTransactions"
      /\ calls' = [calls EXCEPT !.del.pc =
                     IF bc.ok /\ CountOf(bc) = 0 THEN "noBudgets"
                     ELSE "rejected"]
      /\ Awaits(bc)

\* ... DELETE FROM categories WHERE id = ?; referenced: a row referenced
\* the category when its row went
DeleteCategoryDeletes ==
  LET d == executeSql(World, "DELETE FROM categories", calls.del.id)
  IN  /\ calls.del.pc = "noBudgets"
      /\ calls' = [calls EXCEPT
                     !.del.pc = IF d.ok THEN "resolved" ELSE "rejected",
                     !.del.referenced =
                        /\ d.ok
                        /\ \/ \E t \in transactions :
                                t.category_id = calls.del.id
                           \/ \E b \in budgets :
                                b.category_id = calls.del.id]
      /\ Awaits(d)

\* createBudget(data) up to the settling of SELECT id FROM categories
CreateBudgetStart(data) ==
  LET categoryCheck == executeSql(World, "SELECT id FROM categories",
                                  data.category_id)
  IN  /\ calls.cb.pc = "idle"
      /\ validateBudget(data) = ""
      /\ calls' = [calls EXCEPT !.cb.category_id = data.category_id,
                     !.cb.pc = IF categoryCheck.ok /\ categoryCheck.rows # {}
                               THEN "checked" ELSE "rejected"]
      /\ Awaits(categoryCheck)

\* ... INSERT INTO budgets; dangling: the category was gone when the
\* budget's row went in
CreateBudgetInserts(data) ==
  LET r == executeSql(World, "INSERT INTO budgets",
             [category_id |-> data.category_id,
              amount |-> data.amount,
              period |-> data.period,
              start_date |-> data.start_date,
              end_date |-> TupleOrNull(data.end_date),
              created_at |-> NowISO,
              updated_at |-> NowISO])
  IN  /\ calls.cb.pc = "checked"
      /\ calls.cb.category_id = data.category_id
      /\ r.ok => r.w.seq.budgets <= MaxBudgetId
      /\ calls' = [calls EXCEPT
                     !.cb.pc = IF r.ok THEN "resolved" ELSE "rejected",
                     !.cb.dangling =
                        /\ r.ok
                        /\ ~\E c \in categories : c.id = data.category_id]
      /\ Awaits(r)

Groceries == TransactionData(100, Lunch, Day0, "expense", 1, FALSE, "", "")
Uncategorised == TransactionData(100, Lunch, Day0, "expense", 0, FALSE, "", "")
RentBudget == BudgetData(1, 1000, "monthly", Day0, <<>>)
SalaryBudget == BudgetData(2, 500, "weekly", Day0, Day1)

NextInterleaved ==
  \/ RunMigrations
  \/ \E d \in {CategoryData(Rent, "", <<>>), CategoryData(Salary, "", <<>>)} :
       CreateCategory(d)
  \/ \E i \in CategoryIds : DeleteCategoryStart(i)
  \/ DeleteCategoryCountsTransactions
  \/ DeleteCategoryCountsBudgets
  \/ DeleteCategoryDeletes
  \/ \E d \in {Groceries, Uncategorised} : CreateTransaction(d)
  \/ UpdateTransaction(1, Groceries)
  \/ CreateBudgetStart(RentBudget)
  \/ CreateBudgetInserts(RentBudget)
  \/ CreateBudget(SalaryBudget)
  \/ UpdateBudget(1, RentBudget)

SpecInterleaved == Init /\ [][NextInterleaved]_vars

\* C25: a deleteCategory(c) that runs statement by statement among
\* createTransaction, updateTransaction, createBudget and updateBudget
\* calls never removes the row of c while a transaction or a budget
\* references c, and a createBudget whose check found c never inserts its
\* row after c has gone.
C25_NeverGoneWhileReferenced ==
  /\ calls.del.pc = "resolved" => ~calls.del.referenced
  /\ calls.cb.pc = "resolved" => ~calls.cb.dangling

(***************************************************************************)
(* Limit and offset, each on its own.                                      *)
(***************************************************************************)
\* filters with an offset and no limit, or a limit and no offset
OffsetOnly == {Filters(<<>>, <<>>, 0, t, JsUndefined, JsNum(o)) :
                 t \in {"", "expense"}, o \in {1, 2}}
LimitOnly == {Filters(<<>>, <<>>, 0, t, JsNum(l), JsUndefined) :
                t \in {"", "expense"}, l \in {1, 2}}

\* the list s without its first O rows when an offset is supplied, cut to
\* L rows when a limit is
Paged(s, filters) ==
  LET from == IF filters.offset = JsUndefined THEN 0 ELSE filters.offset.n
      rest == SubSeq(s, from + 1, Len(s))
  IN  IF filters.limit = JsUndefined \/ filters.limit.n >= Len(rest)
      THEN rest ELSE SubSeq(rest, 1, filters.limit.n)

\* getAllTransactions(filters) resolves with the paged, ordered selection
ResolvesPaged(filters) ==
  LET r == getAllTransactions(World, filters)
  IN  /\ r.ok
      /\ r.ret.lists # {}
      /\ \A list \in r.ret.lists :
           \E whole \in ByDateThenCreation(Selected(filters)) :
             SameRows(list, Paged(whole, filters))

\* C28: on a migrated store, getAllTransactions with an offset O > 0 and no
\* limit resolves with the ordered list minus its first O rows, and with a
\* limit L and no offset with its first L rows.
C28_LimitAndOffsetIndependent ==
  Migrated => \A f \in OffsetOnly \cup LimitOnly : ResolvesPaged(f)

\* the half of C28 that has a limit
LimitAlone == Migrated => \A f \in LimitOnly : ResolvesPaged(f)

\* what an offset without a limit does: the call rejects with the
\* engine's syntax error
OffsetAloneRejects ==
  Migrated =>
    \A f \in OffsetOnly :
      LET r == getAllTransactions(World, f)
      IN  ~r.ok /\ r.err.msg = "near \"OFFSET\": syntax error"

(***************************************************************************)
(* Updates of transactions that leave fields out.                          *)
(***************************************************************************)
\* a transaction with every optional field, and one with none
Imported ==
  TransactionData(250, Lunch, Day1, "income", 1, TRUE, "sms", "raw")
Bare == TransactionData(100, Lunch, <<>>, "expense", 0, FALSE, "", "")

NextUpdates ==
  \/ Tick
  \/ RunMigrations
  \/ CreateCategory(CategoryData(Rent, "", <<>>))
  \/ \E d \in {Imported, Bare} : CreateTransactionWithin(d, MaxLedgerRows)
  \/ \E i \in 1..MaxLedgerRows, d \in {Imported, Bare} :
       UpdateTransaction(i, d)

SpecUpdates == Init /\ [][NextUpdates]_vars

\* the row of w with id i
RowOf(w, i) == CHOOSE t \in w.transactions : t.id = i

\* C29: on a migrated store, for every stored transaction t and every
\* valid input d, updateTransaction(t.id, d) resolves (unless the engine
\* refuses the category); the row keeps its id and created_at; its date,
\* source and raw_data are the supplied ones, or the stored ones where d
\* leaves them out; its category_id and is_manually_set are the supplied
\* ones, or null and 0 where d leaves them out; the record returned holds
\* the row; and every other row of every table is as before.
C29_UpdateKeepsOrResets ==
  Migrated =>
    \A t \in transactions, d \in {Imported, Bare} :
      LET r == updateTransaction(World, t.id, d)
          n == RowOf(r.w, t.id)
      IN  /\ ~FkMissingParent(World, d.category_id) => r.ok
          /\ r.ok =>
               /\ n.id = t.id
               /\ n.created_at = t.created_at
               /\ n.date = IF d.date = <<>> THEN t.date ELSE d.date
               /\ n.source = IF d.source = "" THEN t.source ELSE d.source
               /\ n.raw_data = IF d.raw_data = "" THEN t.raw_data
                               ELSE d.raw_data
               /\ n.category_id = IF d.category_id = 0 THEN NullId
                                  ELSE d.category_id
               /\ n.is_manually_set = IF d.is_manually_set THEN 1 ELSE 0
               /\ n.amount = d.amount
               /\ n.type = d.type
               /\ [f \in DOMAIN n |-> r.ret[f]] = n
               /\ r.w.transactions \ {n} = transactions \ {t}
               /\ r.w.categories = categories
               /\ r.w.budgets = budgets
               /\ r.w.settings = settings

\* updateTransaction resolved for an input without date, source, raw data,
\* category and flag on a row imported from an SMS, next to another row:
\* date, source and raw data are the stored ones, the category is null and
\* the flag 0
C29_Witness ==
  /\ last.op = "updateTransaction"
  /\ last.ok
  /\ last.ret.date = Day1
  /\ last.ret.source = "sms"
  /\ last.ret.raw_data = "raw"
  /\ last.ret.category_id = NullId
  /\ last.ret.is_manually_set = 0
  /\ last.ret.type = "expense"
  /\ RowOf(World, last.ret.id).raw_data = "raw"
  /\ Cardinality(transactions) = 2

(***************************************************************************)
(* The two reports against each other.                                     *)
(***************************************************************************)
\* the sum of total_amount over the entries of a spending report
RECURSIVE ReportTotal(_)
ReportTotal(list) ==
  IF list = <<>> THEN 0
  ELSE Head(list).total_amount + ReportTotal(Tail(list))

\* the expenses of the window whose category_id is null
Uncategorized(from, to) ==
  {t \in OfType(Within(from, to), "expense") : t.category_id = NullId}

\* the expenses of the window whose category_id is the id of no category
Orphaned(from, to) ==
  {t \in OfType(Within(from, to), "expense") :
     /\ t.category_id # NullId
     /\ ~\E c \in categories : c.id = t.category_id}

\* C30: on a migrated store, for every window, the total_amount entries of
\* every array getSpendingByCategory may return add up to the total_expense
\* of getTransactionSummary minus the expenses of the window whose
\* category_id is null; the two agree exactly when no expense of the
\* window has a null category_id.
C30_ReportsAgree ==
  Migrated =>
    \A win \in ReportWindows :
      LET s == getTransactionSummary(World, win[1], win[2])
          r == getSpendingByCategory(World, win[1], win[2])
      IN  /\ s.ok /\ r.ok
          /\ \A list \in r.ret.lists :
               /\ ReportTotal(list)
                    = s.ret.total_expense
                        - Total(Uncategorized(win[1], win[2]))
               /\ (ReportTotal(list) = s.ret.total_expense)
                    <=> Uncategorized(win[1], win[2]) = {}

\* what holds instead: the report also leaves out the expenses whose
\* category_id is the id of no category
ReportsAgreeUpToOrphans ==
  Migrated =>
    \A win \in ReportWindows :
      LET s == getTransactionSummary(World, win[1], win[2])
          r == getSpendingByCategory(World, win[1], win[2])
      IN  /\ s.ok /\ r.ok
          /\ \A list \in r.ret.lists :
               ReportTotal(list)
                 = s.ret.total_expense
                     - Total(Uncategorized(win[1], win[2]))
                     - Total(Orphaned(win[1], win[2]))

\* the claim on the stores where every category_id is the id of a category
ReportsAgreeWithoutOrphans ==
  (\A t \in transactions :
     t.category_id # NullId => \E c \in categories : c.id = t.category_id)
    => C30_ReportsAgree
========================================================================
